---- MODULE Spec2Model ----
(***************************************************************************)
(* Verification model of the WutheringWaves-Navigator coordinate pipeline: *)
(* src/src/ocr_engine.py (clusterer, selector, parser, tracking worker)    *)
(* and src/src/ocr_manager.py (OCRManager.start_ocr / stop_ocr), and of    *)
(* the calibration solver and store of src/src/main_app.py.                *)
(*                                                                         *)
(* Text is a sequence of one-character strings.  Python's None is the      *)
(* empty tuple, which is falsy in Python exactly as None is.               *)
(***************************************************************************)
EXTENDS Integers, Sequences, FiniteSets, TLC

VARIABLES
    \* ---- OCRWorker objects (one record field per worker id) ----
    pc,                     \* position of the worker thread in run()
    is_running,             \* OCRWorker.is_running
    should_stop,            \* OCRWorker.should_stop
    recognition_state,      \* OCRWorker.recognition_state
    last_valid_coord,       \* OCRWorker.last_valid_coord
    last_valid_detections,  \* OCRWorker.last_valid_detections (the template)
    consecutive_failures,   \* OCRWorker.consecutive_failures
    lost_threshold_frames,  \* OCRWorker.lost_threshold_frames
    max_speed_threshold,    \* OCRWorker.max_speed_threshold
    z_axis_threshold,       \* OCRWorker.z_axis_threshold
    confidence_threshold,   \* OCRWorker.confidence_threshold (percent)
    \* ---- OCRManager (UI thread) ----
    ocr_worker,             \* OCRManager.ocr_worker: a worker id, or 0 for None
    created,                \* number of OCRWorker objects constructed so far
    mgr_pc,                 \* position of the UI thread inside start_ocr/stop_ocr
    deleted,                \* per worker: deleteLater was called ("pending"), the object is gone ("done")
    aborted,                \* Qt has aborted the process
    \* ---- observations ----
    tick,                   \* per worker: the last loop iteration (inputs, pre-state, signals)
    failed_ticks,           \* per worker: tracking iterations since the last accepted coordinate
    stop_requested,         \* per worker: stop_recognition was called after start_recognition
    started_after_stop,     \* per worker: an iteration began after the stop request
    \* ---- the parser as a function of a text ----
    parse_input,            \* the text handed to the parser
    parse_result,           \* what the parser returned for it, or Unset
    cleaned_text,           \* the text after timestamp removal, as the parser emits it
    \* ---- the selector as a function of a cluster list ----
    select_input,           \* the clusters handed to find_best_coordinate_cluster
    select_result,          \* what it returned for them, or NotSelected
    \* ---- CalibrationWindow / MainWindow (src/src/main_app.py) ----
    calibration_points,     \* CalibrationWindow.calibration_points
    transform_matrix,       \* CalibrationWindow.transform_matrix
    app_transform_matrix,   \* MainWindow.transform_matrix
    fit_result,             \* what calculate_transform_matrix did for the points, or NotFitted
    finished,               \* what finish_calibration did: signals, dialog, accept()
    \* ---- CalibrationDataManager ----
    calibration_data,       \* the JSON object in calibration_data.json
    last_saved,             \* per (mode, name, area): the matrix of the latest save, None after a delete
    loaded,                 \* the last load_calibration call: its arguments and result
    store_ops,              \* calls made so far (also the clock of the timestamps)
    \* ---- MainWindow: the map shown and its calibration ----
    current_area_id,        \* MainWindow.current_area_id
    pending_load,           \* a QTimer.singleShot(load_calibration_for_current_map) is due
    matrix_owner,           \* the area whose calibration MainWindow.transform_matrix is
    app_op,                 \* the last operation of the application on the calibration
    \* ---- the clusterer as a function of a detection list ----
    class_names_static,     \* OCRWorker._CLASS_NAMES_STATIC (a class attribute)
    cluster_input,          \* the detections handed to the clusterer
    cluster_result,         \* what it returned for them, first and second time
    \* ---- server.py ----
    clients,                \* the global set of connected websockets
    failing,                \* websockets whose send() raises
    handlers,               \* websockets whose ws_handle is in its receive loop
    server_op,              \* the last broadcast: who asked, what it raised
    \* ---- RouteRecorder ----
    is_recording,           \* RouteRecorder.is_recording
    current_route,          \* RouteRecorder.current_route, or NoRoute for None
    last_point_time,        \* RouteRecorder.last_point_time (0 for None)
    clock,                  \* datetime.now(), in half filter intervals
    recorder_op             \* the last call on the recorder and what it returned

workerVars == <<pc, is_running, should_stop, recognition_state, last_valid_coord,
                last_valid_detections, consecutive_failures, lost_threshold_frames,
                max_speed_threshold, z_axis_threshold, confidence_threshold>>
managerVars == <<ocr_worker, created, mgr_pc, deleted, aborted>>
obsVars == <<tick, failed_ticks, stop_requested, started_after_stop>>
parseVars == <<parse_input, parse_result, cleaned_text, select_input, select_result>>
calibVars == <<calibration_points, transform_matrix, app_transform_matrix, fit_result, finished>>
storeVars == <<calibration_data, last_saved, loaded, store_ops>>
appVars == <<current_area_id, pending_load, matrix_owner, app_op>>
clusterVars == <<class_names_static, cluster_input, cluster_result>>
serverVars == <<clients, failing, handlers, server_op>>
recorderVars == <<is_recording, current_route, last_point_time, clock, recorder_op>>
laterVars == <<appVars, clusterVars, serverVars, recorderVars>>
harnessVars == <<parseVars, calibVars, storeVars, laterVars>>
vars == <<workerVars, managerVars, obsVars, harnessVars>>

None == <<>>
Unset == [ok |-> FALSE, coords |-> None, emits |-> <<"unset">>]

\* A character that is None: the empty string, falsy in Python as None is.
NoChar == ""

Min(a, b) == IF a < b THEN a ELSE b
Abs(a) == IF a < 0 THEN -a ELSE a

\* ------------------------------------------------------------------------
\* Characters and class ids
\* ------------------------------------------------------------------------

\* OCRWorker._CLASS_NAMES_STATIC as the class body sets it: the class-id ->
\* character table, which _load_class_names replaces.
CLASS_NAMES_STATIC == <<"0", "1", "2", "3", "4", "5", "6", "7", "8", "9", ",", ":", "-">>

\* OCRWorker._class_id_to_char_static: the character of a class id (ids are
\* 0-based in the source), or no character.
class_id_to_char_static(class_id) ==
    IF 0 <= class_id /\ class_id < Len(class_names_static)
    THEN class_names_static[class_id + 1]
    ELSE NoChar

Digits == {"0", "1", "2", "3", "4", "5", "6", "7", "8", "9"}
Whitespace == {" "}

\* str.isdigit() of a single character.
IsDigitChar(c) == c \in Digits

\* int() of a single digit.
DigitVal(c) ==
    CASE c = "0" -> 0 [] c = "1" -> 1 [] c = "2" -> 2 [] c = "3" -> 3
      [] c = "4" -> 4 [] c = "5" -> 5 [] c = "6" -> 6 [] c = "7" -> 7
      [] c = "8" -> 8 [] c = "9" -> 9

\* str.isdigit(): non-empty and all characters are digits.
IsDigitStr(s) == Len(s) > 0 /\ \A i \in 1..Len(s) : IsDigitChar(s[i])

\* str.replace(c, ""): the text without the characters of cs.
RECURSIVE RemoveChars(_, _)
RemoveChars(s, cs) ==
    IF s = <<>> THEN <<>>
    ELSE IF Head(s) \in cs THEN RemoveChars(Tail(s), cs)
    ELSE <<Head(s)>> \o RemoveChars(Tail(s), cs)

\* str.rstrip(): the text without its trailing whitespace.
RECURSIVE RStrip(_)
RStrip(s) ==
    IF s = <<>> THEN <<>>
    ELSE IF s[Len(s)] \in Whitespace THEN RStrip(SubSeq(s, 1, Len(s) - 1))
    ELSE s

\* str.lstrip(): the text without its leading whitespace.
RECURSIVE LStrip(_)
LStrip(s) ==
    IF s = <<>> THEN <<>>
    ELSE IF Head(s) \in Whitespace THEN LStrip(Tail(s))
    ELSE s

\* str.strip()
Strip(s) == LStrip(RStrip(s))

\* ------------------------------------------------------------------------
\* The coordinate grammar  ^(-?\d{1,7}),(-?\d{1,7}),(-?\d{1,7})
\* ------------------------------------------------------------------------

\* The {1,7} of the coordinate pattern.
MaxCoordDigits == 7

\* max_coord_value of the parser.
max_coord_value == 9999999

\* The number of consecutive digits of s from position i on.
RECURSIVE DigitRun(_, _)
DigitRun(s, i) ==
    IF i <= Len(s) /\ IsDigitChar(s[i]) THEN 1 + DigitRun(s, i + 1) ELSE 0

\* One group -?\d{1,7} of the pattern matched at position i: the position just
\* after the group, or 0 when the pattern cannot match there.  A group that
\* is followed by "," in the pattern must end exactly at a comma; the last
\* group is greedy and takes at most seven digits.
DigitsEnd(s, j, r, last) ==
    IF r = 0 THEN 0
    ELSE IF last THEN j + Min(r, MaxCoordDigits)
    ELSE IF r <= MaxCoordDigits /\ j + r <= Len(s) /\ s[j + r] = ","
         THEN j + r
         ELSE 0

\* The digits of a group start at j, after the optional "-".
SignedDigitsEnd(s, j, last) == DigitsEnd(s, j, DigitRun(s, j), last)

GroupEnd(s, i, last) ==
    SignedDigitsEnd(s, IF i <= Len(s) /\ s[i] = "-" THEN i + 1 ELSE i, last)

\* The three groups of a match whose groups end before e1, e2 and e3.
Captured(s, e1, e2, e3) ==
    IF e3 = 0 THEN None
    ELSE <<SubSeq(s, 1, e1 - 1), SubSeq(s, e1 + 1, e2 - 1), SubSeq(s, e2 + 1, e3 - 1)>>

MatchThird(s, e1, e2) ==
    Captured(s, e1, e2, IF e2 = 0 THEN 0 ELSE GroupEnd(s, e2 + 1, TRUE))

MatchSecond(s, e1) ==
    MatchThird(s, e1, IF e1 = 0 THEN 0 ELSE GroupEnd(s, e1 + 1, FALSE))

\* coord_pattern.match(s): the three captured groups, or None.
coord_pattern_match(s) == MatchSecond(s, GroupEnd(s, 1, FALSE))

\* The value of a digit string, most significant digit first.
RECURSIVE DecimalValue(_)
DecimalValue(s) ==
    IF s = <<>> THEN 0
    ELSE 10 * DecimalValue(SubSeq(s, 1, Len(s) - 1)) + DigitVal(s[Len(s)])

\* ParseInt changed: the minus sign is dropped.
ParseInt_Unsigned(g) ==
    IF Head(g) = "-" THEN DecimalValue(Tail(g)) ELSE DecimalValue(g)

\* int(group) for a captured group -?\d+.
ParseInt(g) ==
    IF Head(g) = "-" THEN -DecimalValue(Tail(g)) ELSE DecimalValue(g)

\* ------------------------------------------------------------------------
\* Timestamp removal
\* ------------------------------------------------------------------------

\* TimestampAt changed: the dash after the year is not required.
TimestampAt_NoDash(s, i) ==
    /\ i + 3 <= Len(s)
    /\ s[i] = "2" /\ s[i + 1] = "0" /\ s[i + 2] \in {"2", "3"}
    /\ IsDigitChar(s[i + 3])

\* timestamp_pattern 20[23]\d- matches s at position i.
TimestampAt(s, i) ==
    /\ i + 4 <= Len(s)
    /\ s[i] = "2" /\ s[i + 1] = "0" /\ s[i + 2] \in {"2", "3"}
    /\ IsDigitChar(s[i + 3]) /\ s[i + 4] = "-"

\* \s{2,} matches s at position i.
SpaceRunAt(s, i) ==
    i + 1 <= Len(s) /\ s[i] \in Whitespace /\ s[i + 1] \in Whitespace

\* year_only_pattern \s+20[23]\d$ matches s from position i to its end.
YearOnlyAt(s, i) ==
    /\ i + 4 <= Len(s)
    /\ \A k \in i..(Len(s) - 4) : s[k] \in Whitespace
    /\ s[Len(s) - 3] = "2" /\ s[Len(s) - 2] = "0" /\ s[Len(s) - 1] \in {"2", "3"}
    /\ IsDigitChar(s[Len(s)])

\* The least element of a non-empty set of positions.
MinOf(S) == CHOOSE i \in S : \A k \in S : i <= k

\* OCRWorker._remove_timestamp_from_coord_string
remove_timestamp_from_coord_string(coord_str) ==
    LET stamps == {i \in 1..Len(coord_str) : TimestampAt(coord_str, i)}
        runs   == {i \in 1..Len(coord_str) : SpaceRunAt(coord_str, i)}
        years  == {i \in 1..Len(coord_str) : YearOnlyAt(coord_str, i)}
    IN  IF stamps # {} THEN RStrip(SubSeq(coord_str, 1, MinOf(stamps) - 1))
        ELSE IF runs # {} THEN Strip(SubSeq(coord_str, 1, MinOf(runs) - 1))
        ELSE IF years # {} THEN Strip(SubSeq(coord_str, 1, MinOf(years) - 1))
        ELSE coord_str

\* ------------------------------------------------------------------------
\* The parser
\* ------------------------------------------------------------------------

\* The range validation all(abs(c) <= max_coord_value for c in [x, y, z]).
CoordsInRange(c) == \A i \in 1..3 : Abs(c[i]) <= max_coord_value

\* The body of _parse_and_validate_from_detections from the joined string on:
\* timestamp removal, the pattern, int(), the range validation.  The result
\* carries the ocr_output_updated emissions made on the way.
\* The range validation of the integers x, y, z and the result returned.
ValidateCoords(xyz) ==
    IF CoordsInRange(xyz)
    THEN [ok |-> TRUE, coords |-> xyz, emits |-> <<"raw_result", "parsed_coords">>]
    ELSE [ok |-> FALSE, coords |-> None, emits |-> <<"raw_result", "out_of_range">>]

\* The branch on the match: int() of the three groups, or the mismatch.
ParseGroups(groups) ==
    IF groups = None
    THEN [ok |-> FALSE, coords |-> None, emits |-> <<"raw_result", "format_mismatch">>]
    ELSE ValidateCoords(<<ParseInt(groups[1]), ParseInt(groups[2]), ParseInt(groups[3])>>)

ParseCoordString(coord_str) ==
    ParseGroups(coord_pattern_match(Strip(remove_timestamp_from_coord_string(coord_str))))

\* ------------------------------------------------------------------------
\* Detections.  A detection is [class, x1, x2, conf]: the class id, the left
\* and right edge of its box (bbox[0], bbox[2]) and the confidence in percent.
\* ------------------------------------------------------------------------

\* list.sort / sorted with key bbox[0]: a stable sort by the left edge.
RECURSIVE InsertByX1(_, _)
InsertByX1(sorted, d) ==
    IF sorted = <<>> THEN <<d>>
    ELSE IF Head(sorted).x1 <= d.x1 THEN <<Head(sorted)>> \o InsertByX1(Tail(sorted), d)
    ELSE <<d>> \o sorted

RECURSIVE SortByX1(_)
SortByX1(ds) ==
    IF ds = <<>> THEN <<>>
    ELSE InsertByX1(SortByX1(SubSeq(ds, 1, Len(ds) - 1)), ds[Len(ds)])

\* "".join(char or "" for each detection)
RECURSIVE DetectionsText(_)
DetectionsText(ds) ==
    IF ds = <<>> THEN <<>>
    ELSE LET c == class_id_to_char_static(Head(ds).class)
         IN  (IF c = NoChar THEN <<>> ELSE <<c>>) \o DetectionsText(Tail(ds))

\* OCRWorker._parse_and_validate_from_detections.  raises: an exception is
\* raised inside its try block (caught by its own except Exception).
parse_and_validate_from_detections(detections, raises) ==
    IF raises
    THEN [ok |-> FALSE, coords |-> None, emits |-> <<"parse_error">>]
    ELSE IF detections = <<>>
    THEN [ok |-> FALSE, coords |-> None, emits |-> <<>>]
    ELSE ParseCoordString(DetectionsText(SortByX1(detections)))

\* ------------------------------------------------------------------------
\* The glyph clusterer
\* ------------------------------------------------------------------------

\* A detection counted in the width statistic: a digit, '-' or ',' of
\* positive width.
CountsForWidth(d) ==
    LET c == class_id_to_char_static(d.class)
    IN  c # NoChar /\ (IsDigitChar(c) \/ c \in {"-", ","}) /\ d.x2 - d.x1 > 0

RECURSIVE TotalWidth(_)
TotalWidth(ds) ==
    IF ds = <<>> THEN 0
    ELSE (IF CountsForWidth(Head(ds)) THEN Head(ds).x2 - Head(ds).x1 ELSE 0)
         + TotalWidth(Tail(ds))

RECURSIVE ValidCharCount(_)
ValidCharCount(ds) ==
    IF ds = <<>> THEN 0
    ELSE (IF CountsForWidth(Head(ds)) THEN 1 ELSE 0) + ValidCharCount(Tail(ds))

\* gaps: the distance from each detection's right edge to the next one's left.
Gaps(ds) == [i \in 1..(Len(ds) - 1) |-> ds[i + 1].x1 - ds[i].x2]

RECURSIVE InsertInt(_, _)
InsertInt(sorted, n) ==
    IF sorted = <<>> THEN <<n>>
    ELSE IF Head(sorted) <= n THEN <<Head(sorted)>> \o InsertInt(Tail(sorted), n)
    ELSE <<n>> \o sorted

\* sorted(gaps)
RECURSIVE SortInts(_)
SortInts(ns) ==
    IF ns = <<>> THEN <<>>
    ELSE InsertInt(SortInts(SubSeq(ns, 1, Len(ns) - 1)), ns[Len(ns)])

\* gaps_sorted[int(len(gaps_sorted) * 0.75)]
Percentile75Gap(gaps) == SortInts(gaps)[((3 * Len(gaps)) \div 4) + 1]

\* gap > avg_char_width * (num / den), with avg_char_width = total / count
\* kept as a fraction.
ExceedsWidths(gap, total, count, num, den) == gap * count * den > total * num

\* gap > separation_threshold: max(threshold_1, threshold_2), threshold_1 =
\* 1.8 widths, threshold_2 = twice the 75th-percentile gap when there are more
\* than two gaps and threshold_1 otherwise.
ExceedsSeparation(gap, gaps, total, count) ==
    /\ ExceedsWidths(gap, total, count, 18, 10)
    /\ Len(gaps) > 2 => gap > 2 * Percentile75Gap(gaps)

\* The three criteria for starting a new cluster before character char.
ShouldSeparate(current_word, char, gap, gaps, total, count) ==
    \/ ExceedsSeparation(gap, gaps, total, count)
    \/ ExceedsWidths(gap, total, count, 25, 10)
    \/ /\ IsDigitStr(RemoveChars(current_word, {",", "-"}))
       /\ Len(current_word) >= 4
       /\ IsDigitChar(char)
       /\ ExceedsWidths(gap, total, count, 20, 10)

\* The left-to-right walk of the clusterer from detection i on.  st holds
\* the clusters closed so far, the current word with its detections, whether
\* a first character was seen and the right edge of the last character.
RECURSIVE ClusterWalk(_, _, _, _, _, _)
ClusterWalk(ds, i, st, gaps, total, count) ==
    IF i > Len(ds)
    THEN IF st.word # <<>>
         THEN Append(st.clusters, [word |-> st.word, detections |-> st.dets])
         ELSE st.clusters
    ELSE LET d    == ds[i]
             char == class_id_to_char_static(d.class)
         IN  IF char = NoChar THEN ClusterWalk(ds, i + 1, st, gaps, total, count)
             ELSE IF ~st.started
             THEN ClusterWalk(ds, i + 1,
                      [clusters |-> st.clusters, word |-> <<char>>, dets |-> <<d>>,
                       started |-> TRUE, last_x2 |-> d.x2], gaps, total, count)
             ELSE IF ShouldSeparate(st.word, char, d.x1 - st.last_x2, gaps, total, count)
             THEN ClusterWalk(ds, i + 1,
                      [clusters |-> Append(st.clusters,
                                           [word |-> st.word, detections |-> st.dets]),
                       word |-> <<char>>, dets |-> <<d>>,
                       started |-> TRUE, last_x2 |-> d.x2], gaps, total, count)
             ELSE ClusterWalk(ds, i + 1,
                      [clusters |-> st.clusters, word |-> Append(st.word, char),
                       dets |-> Append(st.dets, d),
                       started |-> TRUE, last_x2 |-> d.x2], gaps, total, count)

\* cluster_detections_to_rich_clusters
\* The clusterer on the sorted detections ds, with the width statistic.
ClusterSorted(ds, total, count) ==
    IF ds = <<>> \/ count = 0 THEN <<>>
    ELSE ClusterWalk(ds, 1,
             [clusters |-> <<>>, word |-> <<>>, dets |-> <<>>,
              started |-> FALSE, last_x2 |-> 0], Gaps(ds), total, count)

ClusterWithWidths(ds) == ClusterSorted(ds, TotalWidth(ds), ValidCharCount(ds))

cluster_detections_to_rich_clusters(detections) == ClusterWithWidths(SortByX1(detections))

\* ------------------------------------------------------------------------
\* The coordinate selector
\* ------------------------------------------------------------------------

\* best_cluster = None
NoCluster == [word |-> <<>>, detections |-> <<>>]

\* The selection loop of find_best_coordinate_cluster from cluster i on.
RECURSIVE SelectFrom(_, _, _, _)
SelectFrom(clusters, i, best, details) ==
    IF i > Len(clusters) THEN [best |-> best, details |-> details]
    ELSE LET cluster == clusters[i]
             cleaned == RemoveChars(cluster.word, {" ", "\t"})
             matched == coord_pattern_match(cleaned) # None
             detail  == [word |-> cluster.word, cleaned |-> cleaned, matched |-> matched]
             take    == matched /\ (best = NoCluster
                                    \/ Len(cleaned) > Len(RemoveChars(best.word, {" "})))
         IN  SelectFrom(clusters, i + 1, IF take THEN cluster ELSE best,
                        Append(details, detail))

\* find_best_coordinate_cluster: the best cluster (or NoCluster) and one
\* selection detail per cluster.
find_best_coordinate_cluster(clusters) == SelectFrom(clusters, 1, NoCluster, <<>>)

\* ------------------------------------------------------------------------
\* The tracking state machine.  self is the record of an OCRWorker's tracking
\* fields; a signal is [sig, arg] with arg a tuple.
\* ------------------------------------------------------------------------

SEARCHING == "SEARCHING"
LOCKED == "LOCKED"
LOST == "LOST"

Signal(sig, arg) == [sig |-> sig, arg |-> arg]
OutputUpdated(tag) == Signal("ocr_output_updated", <<tag>>)
OutputSignals(tags) == [i \in 1..Len(tags) |-> OutputUpdated(tags[i])]

\* The largest r with r * r <= n.
RECURSIVE ISqrtFrom(_, _)
ISqrtFrom(n, r) == IF (r + 1) * (r + 1) > n THEN r ELSE ISqrtFrom(n, r + 1)

\* math.sqrt(dx*dx + dy*dy) > threshold, for an integer threshold: the root
\* is compared through its integer part and the remainder.
HorizontalDistanceExceeds(dx, dy, threshold) ==
    LET n == dx * dx + dy * dy
        r == ISqrtFrom(n, 0)
    IN  r > threshold \/ (r = threshold /\ r * r < n)

\* is_teleport_jump changed: the height is not checked.
is_teleport_jump_NoHeight(self, coordinates) ==
    IF self.last_valid_coord = None THEN FALSE
    ELSE HorizontalDistanceExceeds(coordinates[1] - self.last_valid_coord[1],
                                   coordinates[2] - self.last_valid_coord[2],
                                   self.max_speed_threshold)

\* OCRWorker._is_teleport_jump
is_teleport_jump(self, coordinates) ==
    IF self.last_valid_coord = None THEN FALSE
    ELSE LET dx == coordinates[1] - self.last_valid_coord[1]
             dy == coordinates[2] - self.last_valid_coord[2]
             dz == coordinates[3] - self.last_valid_coord[3]
         IN  \/ Abs(dz) > self.z_axis_threshold
             \/ HorizontalDistanceExceeds(dx, dy, self.max_speed_threshold)

\* What a state handler returns: success, the coordinates, the template it
\* stored and the ocr_output_updated emissions of the parser.
Handled(success, coords, template, emits) ==
    [success |-> success, coords |-> coords, template |-> template, emits |-> emits]

\* The parser's result p for the best cluster, or nothing parsed when there
\* is no best cluster.
NotParsed == [ok |-> FALSE, coords |-> None, emits |-> <<>>]

\* OCRWorker._handle_locked_state, p being the parser's result for the best
\* cluster's detections.
handle_locked_state(self, best_cluster, p) ==
    IF best_cluster # NoCluster /\ p.ok /\ ~is_teleport_jump(self, p.coords)
    THEN Handled(TRUE, p.coords, best_cluster.detections, p.emits)
    ELSE Handled(FALSE, None, self.last_valid_detections, p.emits)

\* handle_searching_state changed: the jump check of the LOCKED state is made.
handle_searching_state_JumpCheck(self, best_cluster, p) ==
    handle_locked_state(self, best_cluster, p)

\* OCRWorker._handle_searching_state, p as above.
handle_searching_state(self, best_cluster, p) ==
    IF best_cluster # NoCluster /\ p.ok
    THEN Handled(TRUE, p.coords, best_cluster.detections, p.emits)
    ELSE Handled(FALSE, None, self.last_valid_detections, p.emits)

\* The state dispatch of _apply_tracking_algorithm.
DispatchState(self, best_cluster, p) ==
    IF self.recognition_state = LOCKED
    THEN handle_locked_state(self, best_cluster, p)
    ELSE IF self.recognition_state \in {SEARCHING, LOST}
    THEN handle_searching_state(self, best_cluster, p)
    ELSE Handled(FALSE, None, self.last_valid_detections, <<>>)

\* Both handlers parse the best cluster's detections when there is one.
HandleState(self, best_cluster, parse_raises) ==
    DispatchState(self, best_cluster,
        IF best_cluster # NoCluster
        THEN parse_and_validate_from_detections(best_cluster.detections, parse_raises)
        ELSE NotParsed)

\* OCRWorker._transition_to_locked: the new state and the signals emitted.
transition_to_locked(state) ==
    IF state # LOCKED
    THEN [state |-> LOCKED, signals |-> <<Signal("recognition_state_changed", <<LOCKED>>)>>]
    ELSE [state |-> state, signals |-> <<>>]

\* transition_to_lost changed: the state changes and nothing is emitted.
transition_to_lost_Silent(state) ==
    IF state # LOST
    THEN [state |-> LOST, signals |-> <<>>]
    ELSE [state |-> state, signals |-> <<>>]

\* OCRWorker._transition_to_lost
transition_to_lost(state) ==
    IF state # LOST
    THEN [state |-> LOST, signals |-> <<Signal("recognition_state_changed", <<LOST>>)>>]
    ELSE [state |-> state, signals |-> <<>>]

\* No transition: the state stays as it is and nothing is emitted.
StayIn(state) == [state |-> state, signals |-> <<>>]

\* Accepted changed: the counter is not reset and the coordinate is emitted
\* twice.
Accepted_EmitsTwice(self, h, t) ==
    [self |-> [self EXCEPT !.last_valid_coord = h.coords,
                           !.last_valid_detections = h.template,
                           !.recognition_state = t.state],
     signals |-> OutputSignals(h.emits) \o t.signals
                 \o <<Signal("coordinates_detected", h.coords),
                      Signal("coordinates_detected", h.coords),
                      OutputUpdated("final_coords")>>,
     success |-> TRUE, coords |-> h.coords]

\* The acceptance branch of _apply_tracking_algorithm, t being the outcome
\* of its transition.
Accepted(self, h, t) ==
    [self |-> [self EXCEPT !.consecutive_failures = 0,
                           !.last_valid_coord = h.coords,
                           !.last_valid_detections = h.template,
                           !.recognition_state = t.state],
     signals |-> OutputSignals(h.emits) \o t.signals
                 \o <<Signal("coordinates_detected", h.coords),
                      OutputUpdated("final_coords")>>,
     success |-> TRUE, coords |-> h.coords]

AcceptCoordinate(self, h) ==
    Accepted(self, h, IF self.recognition_state # LOCKED
                      THEN transition_to_locked(self.recognition_state)
                      ELSE StayIn(self.recognition_state))

\* Failed changed: the pipeline trace is not emitted.
Failed_NoTrace(self, h, failures, t) ==
    [self |-> [self EXCEPT !.consecutive_failures = failures,
                           !.last_valid_detections = h.template,
                           !.recognition_state = t.state],
     signals |-> OutputSignals(h.emits) \o t.signals,
     success |-> h.success, coords |-> h.coords]

\* The failure branch of _apply_tracking_algorithm, failures being the
\* incremented counter and t the outcome of its transition.
Failed(self, h, failures, t) ==
    [self |-> [self EXCEPT !.consecutive_failures = failures,
                           !.last_valid_detections = h.template,
                           !.recognition_state = t.state],
     signals |-> OutputSignals(h.emits) \o t.signals \o <<OutputUpdated("debug_info")>>,
     success |-> h.success, coords |-> h.coords]

\* LostNow changed: LOST only once the counter is past the threshold.
LostNow_PastThreshold(self, failures) ==
    self.recognition_state = LOCKED /\ failures > self.lost_threshold_frames

\* LostNow changed: the state is not looked at.
LostNow_AnyState(self, failures) == failures >= self.lost_threshold_frames

\* The test that moves a LOCKED worker to LOST.
LostNow(self, failures) ==
    self.recognition_state = LOCKED /\ failures >= self.lost_threshold_frames

CountFailure(self, h) ==
    Failed(self, h, self.consecutive_failures + 1,
           IF LostNow(self, self.consecutive_failures + 1)
           THEN transition_to_lost(self.recognition_state)
           ELSE StayIn(self.recognition_state))

\* The final update of _apply_tracking_algorithm on the handler's result h.
UpdateAndEmit(self, h) ==
    IF h.success /\ h.coords # None
    THEN AcceptCoordinate(self, h)
    ELSE CountFailure(self, h)

\* OCRWorker._apply_tracking_algorithm: the worker's fields afterwards, the
\* signals emitted in order, and the returned (success, coordinates).
apply_tracking_algorithm(self, raw_detections, parse_raises) ==
    UpdateAndEmit(self,
        HandleState(self,
            find_best_coordinate_cluster(
                cluster_detections_to_rich_clusters(raw_detections)).best,
            parse_raises))

\* OCRWorker._run_yolo_inference: the boxes at or above the confidence
\* threshold, or no detections when the model raises.
run_yolo_inference(boxes, threshold, raises) ==
    IF raises THEN <<>>
    ELSE SelectSeq(boxes, LAMBDA b : b.conf >= threshold)

\* ------------------------------------------------------------------------
\* Bounds and inputs of the worker model
\* ------------------------------------------------------------------------

\* The number of OCRWorker objects.
MaxWorkers == 2
Workers == 1..MaxWorkers

\* The largest lost_threshold_frames configured.
MaxLostThreshold == 2

\* consecutive_failures is not counted beyond this.
MaxFailures == 3

\* Configured values (advanced_ocr_settings; the confidence in percent).
LostThresholds == 1..MaxLostThreshold
SpeedThresholds == {2}
ZThresholds == {1}
ConfidenceThresholds == {45}

\* A line of glyphs from left edge x on: boxes 8 wide, 2 apart, confidence 90.
Line(classes, x) ==
    [i \in 1..Len(classes) |->
        [class |-> classes[i], x1 |-> x + (i - 1) * 10, x2 |-> x + (i - 1) * 10 + 8,
         conf |-> 90]]

\* The same boxes in the opposite order.
Reversed(ds) == [i \in 1..Len(ds) |-> ds[Len(ds) + 1 - i]]

\* The boxes the model returns for the frames captured: class 10 is ",",
\* class 12 is "-", class 13 decodes to nothing.
Frames ==
    { <<>>,
      Line(<<0, 10, 0, 10, 0>>, 0),                              \* 0,0,0
      Reversed(Line(<<2, 10, 0, 10, 0>>, 0)),                    \* 2,0,0 right to left
      Line(<<3, 10, 0, 10, 0>>, 0),                              \* 3,0,0
      Line(<<0, 10, 0, 10, 2>>, 0),                              \* 0,0,2
      Line(<<12, 1, 10, 2, 10, 1>>, 0),                          \* -1,2,1
      Line(<<1, 10, 2>>, 0),                                     \* 1,2
      Line(<<1, 2>>, 0) \o Line(<<0, 10, 0, 10, 0>>, 60),        \* 12   0,0,0
      [Line(<<0, 10, 0, 10, 0>>, 0) EXCEPT ![2].conf = 10],      \* 0,0,0 with a faint comma
      Line(<<13, 0, 10, 0, 10, 0>>, 0) }                         \* ?0,0,0

\* What can go wrong in one loop iteration: the capture callback returns None
\* or is missing, the capture callback raises, the model raises, an exception
\* leaves _apply_tracking_algorithm before it changed anything (the clusterer
\* or the selector), the parser raises inside its try block.
CaptureFaults == {"capture_none", "capture_raises"}
TrackFaults == {"none", "classify_raises", "cluster_raises", "parse_raises"}

\* The frame on which the faults are tried: without a fault it parses to 0,0,0.
FaultFrames == { Line(<<0, 10, 0, 10, 0>>, 0) }

\* The inputs of an iteration on a captured image: any frame without a fault,
\* or a fault on a frame that would have parsed.
TrackInputs(frames) ==
    { <<frame, "none">> : frame \in frames }
    \cup { <<frame, fault>> : frame \in FaultFrames, fault \in TrackFaults \ {"none"} }

\* ------------------------------------------------------------------------
\* The OCRWorker thread
\* ------------------------------------------------------------------------

\* The tracking fields of worker w as one record.
SelfOf(w) ==
    [recognition_state |-> recognition_state[w],
     last_valid_coord |-> last_valid_coord[w],
     last_valid_detections |-> last_valid_detections[w],
     consecutive_failures |-> consecutive_failures[w],
     lost_threshold_frames |-> lost_threshold_frames[w],
     max_speed_threshold |-> max_speed_threshold[w],
     z_axis_threshold |-> z_axis_threshold[w]]

\* The fields of worker w become those of record self.
StoreSelf(w, self) ==
    /\ recognition_state' = [recognition_state EXCEPT ![w] = self.recognition_state]
    /\ last_valid_coord' = [last_valid_coord EXCEPT ![w] = self.last_valid_coord]
    /\ last_valid_detections' = [last_valid_detections EXCEPT ![w] = self.last_valid_detections]
    /\ consecutive_failures' = [consecutive_failures EXCEPT ![w] = self.consecutive_failures]
    /\ UNCHANGED <<lost_threshold_frames, max_speed_threshold, z_axis_threshold>>

trackingVars == <<recognition_state, last_valid_coord, last_valid_detections,
                  consecutive_failures, lost_threshold_frames, max_speed_threshold,
                  z_axis_threshold>>

\* The record of a loop iteration (or of the start of run()).
TickRecord(kind, pre, frame, fault, signals, success, coords) ==
    [kind |-> kind, pre |-> pre, frame |-> frame, fault |-> fault,
     signals |-> signals, success |-> success, coords |-> coords]

\* The fields OCRWorker.__init__ sets, given the configured thresholds.
NewSelf(lost, speed, z) ==
    [recognition_state |-> SEARCHING, last_valid_coord |-> None,
     last_valid_detections |-> None, consecutive_failures |-> 0,
     lost_threshold_frames |-> lost, max_speed_threshold |-> speed,
     z_axis_threshold |-> z]

\* OCRWorker.start_recognition
start_recognition(w) ==
    IF ~is_running[w]
    THEN /\ should_stop' = [should_stop EXCEPT ![w] = FALSE]
         /\ pc' = [pc EXCEPT ![w] = IF @ \in {"new", "finished"} THEN "starting" ELSE @]
    ELSE UNCHANGED <<should_stop, pc>>

\* OCRWorker.stop_recognition.  wait(5000) blocks the caller, not the worker.
stop_recognition(w) ==
    /\ should_stop' = IF is_running[w] THEN [should_stop EXCEPT ![w] = TRUE] ELSE should_stop
    /\ stop_requested' = [stop_requested EXCEPT ![w] = @ \/ pc[w] # "new"]

\* run(): the thread begins and sets is_running.
RunEnter(w) ==
    /\ ~aborted
    /\ pc[w] = "starting"
    /\ is_running' = [is_running EXCEPT ![w] = TRUE]
    /\ pc' = [pc EXCEPT ![w] = "load"]
    /\ UNCHANGED <<should_stop, trackingVars, confidence_threshold, managerVars,
                   obsVars, harnessVars>>

\* RunLoad changed: run() does not return when load_model failed.
RunLoad_NoReturn(w, model_ok) ==
    /\ ~aborted
    /\ pc[w] = "load"
    /\ StoreSelf(w, NewSelf(lost_threshold_frames[w], max_speed_threshold[w],
                             z_axis_threshold[w]))
    /\ pc' = [pc EXCEPT ![w] = "loop"]
    /\ tick' = [tick EXCEPT ![w] =
           IF model_ok
           THEN TickRecord("run_start", SelfOf(w), <<>>, "none",
                    <<Signal("recognition_state_changed", <<SEARCHING>>),
                      OutputUpdated("started")>>, FALSE, None)
           ELSE TickRecord("load_failed", SelfOf(w), <<>>, "none",
                    <<Signal("error_occurred", <<"load_model">>),
                      OutputUpdated("model_load_failed"),
                      Signal("error_occurred", <<"run">>)>>, FALSE, None)]
    /\ UNCHANGED <<is_running, should_stop, confidence_threshold, managerVars, failed_ticks,
                   stop_requested, started_after_stop, harnessVars>>

\* run(): load_model, then either the early return or load_settings, the
\* state reset and the initial emissions.
RunLoad(w, model_ok) ==
    /\ ~aborted
    /\ pc[w] = "load"
    /\ IF model_ok
       THEN /\ StoreSelf(w, NewSelf(lost_threshold_frames[w], max_speed_threshold[w],
                                    z_axis_threshold[w]))
            /\ pc' = [pc EXCEPT ![w] = "loop"]
            /\ UNCHANGED is_running
            /\ tick' = [tick EXCEPT ![w] =
                   TickRecord("run_start", SelfOf(w), <<>>, "none",
                       <<Signal("recognition_state_changed", <<SEARCHING>>),
                         OutputUpdated("started")>>, FALSE, None)]
       ELSE /\ is_running' = [is_running EXCEPT ![w] = FALSE]
            /\ pc' = [pc EXCEPT ![w] = "finished"]
            /\ UNCHANGED trackingVars
            /\ tick' = [tick EXCEPT ![w] =
                   TickRecord("load_failed", SelfOf(w), <<>>, "none",
                       <<Signal("error_occurred", <<"load_model">>),
                         OutputUpdated("model_load_failed"),
                         Signal("error_occurred", <<"run">>)>>, FALSE, None)]
    /\ UNCHANGED <<should_stop, confidence_threshold, managerVars, failed_ticks,
                   stop_requested, started_after_stop, harnessVars>>

\* run(): the test of `while not self.should_stop`, between two iterations.
LoopCheck(w) ==
    /\ ~aborted
    /\ pc[w] = "loop"
    /\ IF should_stop[w]
       THEN /\ is_running' = [is_running EXCEPT ![w] = FALSE]
            /\ pc' = [pc EXCEPT ![w] = "finished"]
            /\ UNCHANGED started_after_stop
       ELSE /\ pc' = [pc EXCEPT ![w] = "tick"]
            /\ started_after_stop' = [started_after_stop EXCEPT ![w] = @ \/ stop_requested[w]]
            /\ UNCHANGED is_running
    /\ UNCHANGED <<should_stop, trackingVars, confidence_threshold, managerVars,
                   tick, failed_ticks, stop_requested, harnessVars>>

\* TickSkipped changed: a missing image counts as a failed iteration.
TickSkipped_CountsFailure(w, fault) ==
    /\ ~aborted
    /\ pc[w] = "tick"
    /\ fault \in CaptureFaults
    /\ consecutive_failures[w] < MaxFailures
    /\ pc' = [pc EXCEPT ![w] = "loop"]
    /\ StoreSelf(w, CountFailure(SelfOf(w), Handled(FALSE, None,
                                                    last_valid_detections[w], <<>>)).self)
    /\ tick' = [tick EXCEPT ![w] =
           TickRecord("skipped", SelfOf(w), <<>>, fault,
                      <<OutputUpdated("capture_failed")>>, FALSE, None)]
    /\ UNCHANGED <<is_running, should_stop, confidence_threshold,
                   managerVars, failed_ticks, stop_requested, started_after_stop, harnessVars>>

\* run(): one iteration whose capture yields no image (_capture_ocr_region
\* returns None, also when the callback raises): the iteration is skipped.
TickSkipped(w, fault) ==
    /\ ~aborted
    /\ pc[w] = "tick"
    /\ fault \in CaptureFaults
    /\ pc' = [pc EXCEPT ![w] = "loop"]
    /\ tick' = [tick EXCEPT ![w] =
           TickRecord("skipped", SelfOf(w), <<>>, fault,
                      <<OutputUpdated("capture_failed")>>, FALSE, None)]
    /\ UNCHANGED <<is_running, should_stop, trackingVars, confidence_threshold,
                   managerVars, failed_ticks, stop_requested, started_after_stop, harnessVars>>

\* The result r of the tracking algorithm becomes the worker's fields and the
\* record of the iteration.
StoreTracked(w, frame, fault, r) ==
    /\ r.self.consecutive_failures <= MaxFailures
    /\ StoreSelf(w, r.self)
    /\ tick' = [tick EXCEPT ![w] =
           TickRecord("tracked", SelfOf(w), frame, fault, r.signals, r.success, r.coords)]
    /\ failed_ticks' = [failed_ticks EXCEPT ![w] = IF r.success THEN 0 ELSE @ + 1]

\* run(): one iteration on a captured image: inference, the tracking
\* algorithm, the sleep; an exception that escapes is caught by the loop's
\* except Exception, which emits error_occurred and sleeps.
TrackIteration(w, frame, fault) ==
    /\ ~aborted
    /\ pc[w] = "tick"
    /\ fault \in TrackFaults
    /\ IF fault = "cluster_raises"
       THEN /\ UNCHANGED <<trackingVars, failed_ticks>>
            /\ tick' = [tick EXCEPT ![w] =
                   TickRecord("error", SelfOf(w), frame, fault,
                              <<Signal("error_occurred", <<"loop">>)>>, FALSE, None)]
       ELSE StoreTracked(w, frame, fault,
                apply_tracking_algorithm(SelfOf(w),
                    run_yolo_inference(frame, confidence_threshold[w],
                                       fault = "classify_raises"),
                    fault = "parse_raises"))
    /\ pc' = [pc EXCEPT ![w] = "loop"]
    /\ UNCHANGED <<is_running, should_stop, confidence_threshold, managerVars,
                   stop_requested, started_after_stop, harnessVars>>

\* TickTracked changed: the loop has no except Exception, an exception that
\* leaves the tracking algorithm ends run() with is_running still set.
TickTracked_ExceptionEscapes(w, frame, fault) ==
    IF fault = "cluster_raises"
    THEN /\ ~aborted
         /\ pc[w] = "tick"
         /\ pc' = [pc EXCEPT ![w] = "finished"]
         /\ tick' = [tick EXCEPT ![w] =
                TickRecord("error", SelfOf(w), frame, fault, <<>>, FALSE, None)]
         /\ UNCHANGED <<is_running, should_stop, trackingVars, confidence_threshold,
                        managerVars, failed_ticks, stop_requested, started_after_stop,
                        harnessVars>>
    ELSE TrackIteration(w, frame, fault)

\* The iteration of run() on a captured image, as a step of worker w.
TickTracked(w, frame, fault) == TrackIteration(w, frame, fault)

\* The steps of worker w's thread, the model returning boxes of frames.
WorkerStep(w, frames) ==
    \/ RunEnter(w)
    \/ \E model_ok \in BOOLEAN : RunLoad(w, model_ok)
    \/ LoopCheck(w)
    \/ \E fault \in CaptureFaults : TickSkipped(w, fault)
    \/ \E in \in TrackInputs(frames) : TickTracked(w, in[1], in[2])

\* ------------------------------------------------------------------------
\* OCRManager: start_ocr and stop_ocr, called on the UI thread
\* ------------------------------------------------------------------------

\* What the worker actions leave alone when the manager acts.
workerKept == <<is_running, trackingVars, confidence_threshold, tick, failed_ticks,
                started_after_stop, harnessVars>>

\* start_ocr from its last check on: a new OCRWorker is constructed, its
\* signals are connected and start_recognition is called on it.
CreateAndStart ==
    /\ created' = created + 1
    /\ ocr_worker' = created + 1
    /\ start_recognition(created + 1)

\* stop_ocr up to the call of stop_recognition, which sets should_stop and
\* waits only on a worker whose is_running is set.
StopCurrent(waiting, stopped) ==
    /\ stop_recognition(ocr_worker)
    /\ mgr_pc' = IF is_running[ocr_worker] THEN waiting ELSE stopped
    /\ UNCHANGED <<pc, ocr_worker, created>>

\* OCRManager.start_ocr, up to the return or to the wait inside stop_ocr.
\* config_ok: the capture area is set and the model file exists.
StartOcr(config_ok) ==
    /\ ~aborted
    /\ mgr_pc = "idle"
    /\ created < MaxWorkers
    /\ IF ~config_ok
       THEN UNCHANGED <<pc, should_stop, stop_requested, ocr_worker, created, mgr_pc>>
       ELSE IF ocr_worker # 0
       THEN StopCurrent("start_wait", "start_stopped")
       ELSE CreateAndStart /\ UNCHANGED <<mgr_pc, stop_requested>>
    /\ UNCHANGED <<workerKept, deleted, aborted>>

\* OCRManager.stop_ocr, up to the return or to the wait.
StopOcr ==
    /\ ~aborted
    /\ mgr_pc = "idle"
    /\ IF ocr_worker # 0
       THEN StopCurrent("stop_wait", "stop_stopped")
       ELSE UNCHANGED <<pc, should_stop, stop_requested, ocr_worker, created, mgr_pc>>
    /\ UNCHANGED <<workerKept, deleted, aborted>>

\* stop_recognition returns (with no wait, when the thread has finished, or
\* when wait(5000) timed out); stop_ocr calls deleteLater and drops the
\* worker, and start_ocr goes on to construct and start the next one.
StopReturns(timed_out) ==
    /\ ~aborted
    /\ mgr_pc \in {"stop_wait", "stop_stopped", "start_wait", "start_stopped"}
    /\ \/ mgr_pc \in {"stop_stopped", "start_stopped"}
       \/ pc[ocr_worker] = "finished"
       \/ timed_out
    /\ deleted' = [deleted EXCEPT ![ocr_worker] = "pending"]
    /\ mgr_pc' = "idle"
    /\ IF mgr_pc \in {"start_wait", "start_stopped"}
       THEN CreateAndStart
       ELSE ocr_worker' = 0 /\ UNCHANGED <<created, pc, should_stop>>
    /\ UNCHANGED <<workerKept, stop_requested, aborted>>

\* The event loop delivers the deferred delete of worker w: the QThread is
\* destroyed, and Qt aborts the process if its thread has not finished.
DeferredDelete(w) ==
    /\ ~aborted
    /\ mgr_pc = "idle"
    /\ deleted[w] = "pending"
    /\ IF pc[w] = "finished"
       THEN deleted' = [deleted EXCEPT ![w] = "done"] /\ UNCHANGED aborted
       ELSE aborted' = TRUE /\ UNCHANGED deleted
    /\ UNCHANGED <<workerVars, ocr_worker, created, mgr_pc, obsVars, harnessVars>>

\* ------------------------------------------------------------------------
\* Specification Spec: one worker driven through its own interface, as
\* OCRManager drives it (start_recognition once, stop_recognition at any time)
\* ------------------------------------------------------------------------

NoTick == TickRecord("none", NewSelf(0, 0, 0), <<>>, "none", <<>>, FALSE, None)

\* The workers as constructed, with the configured thresholds.
InitWorkers(lost, speed, z, conf) ==
    /\ pc = [w \in Workers |-> "new"]
    /\ is_running = [w \in Workers |-> FALSE]
    /\ should_stop = [w \in Workers |-> FALSE]
    /\ recognition_state = [w \in Workers |-> SEARCHING]
    /\ last_valid_coord = [w \in Workers |-> None]
    /\ last_valid_detections = [w \in Workers |-> None]
    /\ consecutive_failures = [w \in Workers |-> 0]
    /\ lost_threshold_frames = [w \in Workers |-> lost]
    /\ max_speed_threshold = [w \in Workers |-> speed]
    /\ z_axis_threshold = [w \in Workers |-> z]
    /\ confidence_threshold = [w \in Workers |-> conf]
    /\ tick = [w \in Workers |-> NoTick]
    /\ failed_ticks = [w \in Workers |-> 0]
    /\ stop_requested = [w \in Workers |-> FALSE]
    /\ started_after_stop = [w \in Workers |-> FALSE]

InitManager ==
    /\ ocr_worker = 0
    /\ created = 0
    /\ mgr_pc = "idle"
    /\ deleted = [w \in Workers |-> "no"]
    /\ aborted = FALSE

NotSelected == [best |-> [word |-> <<"unset">>, detections |-> <<>>], details |-> <<>>]

InitNoSelect ==
    /\ select_input = <<>>
    /\ select_result = NotSelected

\* calculate_transform_matrix has not been called.
NotFitted == [raised |-> "unset", matrix |-> None]

\* finish_calibration has not been called.
NotFinished == [signals |-> <<>>, dialog |-> "none", accepted |-> FALSE]

\* load_calibration has not been called.
NotLoaded == [query |-> <<>>, result |-> None, expected |-> None]

\* CalibrationWindow.__init__ and MainWindow.__init__: no points, no matrix.
InitNoFit ==
    /\ calibration_points = <<>>
    /\ transform_matrix = None
    /\ app_transform_matrix = None
    /\ fit_result = NotFitted
    /\ finished = NotFinished

\* No operation of the application on the calibration yet.
NoOwner == <<"nobody">>
NoFault == <<TRUE, "ok">>
NoAppOp == [kind |-> "none", fault |-> NoFault, result |-> "none", area |-> None,
            pre_matrix |-> None, pre_data |-> <<>>, settled |-> TRUE, geo |-> <<>>]

\* MainWindow.__init__: no area, no transform.
InitNoApp ==
    /\ current_area_id = None
    /\ pending_load = FALSE
    /\ matrix_owner = NoOwner
    /\ app_op = NoAppOp

\* The clusterer has not been called.
NotCalled == <<[word |-> <<"unset">>, detections |-> <<>>]>>
NotClustered == [first |-> NotCalled, second |-> NotCalled]

\* No client is connected.
NoServerOp == [kind |-> "none", sender |-> 0, raised |-> FALSE, left |-> {}, expected |-> {}]

InitNoServer ==
    /\ clients = {}
    /\ failing = {}
    /\ handlers = {}
    /\ server_op = NoServerOp

\* RouteRecorder.current_route = None.
NoRoute == [name |-> "None", points |-> <<>>, total_points |-> 0]
NoRecorderOp == [kind |-> "none", returned |-> "none", pre_route |-> NoRoute,
                 pre_recording |-> FALSE]

\* RouteRecorder.__init__.
InitNoRecorder ==
    /\ is_recording = FALSE
    /\ current_route = NoRoute
    /\ last_point_time = 0
    /\ clock = 1
    /\ recorder_op = NoRecorderOp

\* The class attribute as the class body sets it.
InitNoCluster ==
    /\ class_names_static = CLASS_NAMES_STATIC
    /\ cluster_input = <<>>
    /\ cluster_result = NotClustered

InitNoLater ==
    /\ InitNoApp
    /\ InitNoCluster
    /\ InitNoServer
    /\ InitNoRecorder

\* No calibration_data.json yet: load_all_calibrations returns {}.
InitNoStore ==
    /\ calibration_data = <<>>
    /\ last_saved = <<>>
    /\ loaded = NotLoaded
    /\ store_ops = 0

InitNoParse ==
    /\ parse_input = <<>>
    /\ parse_result = Unset
    /\ cleaned_text = <<>>
    /\ InitNoSelect
    /\ InitNoFit
    /\ InitNoStore
    /\ InitNoLater

Init ==
    /\ \E lost \in LostThresholds, speed \in SpeedThresholds, z \in ZThresholds,
          conf \in ConfidenceThresholds : InitWorkers(lost, speed, z, conf)
    /\ InitManager
    /\ InitNoParse

\* The worker under test.
Tracked == MinOf(Workers)

\* start_recognition called on the new worker.
StartRecognition ==
    /\ pc[Tracked] = "new"
    /\ start_recognition(Tracked)
    /\ UNCHANGED <<is_running, trackingVars, confidence_threshold, managerVars,
                   obsVars, harnessVars>>

\* stop_recognition called on the worker.
StopRecognition ==
    /\ stop_recognition(Tracked)
    /\ UNCHANGED <<pc, is_running, trackingVars, confidence_threshold, managerVars,
                   tick, failed_ticks, started_after_stop, harnessVars>>

Next ==
    \/ StartRecognition
    \/ StopRecognition
    \/ WorkerStep(Tracked, Frames)

Spec == Init /\ [][Next]_vars

\* ------------------------------------------------------------------------
\* Properties of the tracking worker (specification Spec)
\* ------------------------------------------------------------------------

\* The record of the tracked worker's last iteration.
LastTick == tick[Tracked]

\* The record is of a loop iteration (not of the start of run()).
IsIteration(t) == t.kind \in {"tracked", "skipped", "error"}

\* The signals of one kind emitted in an iteration, in order.
SignalsOf(t, sig) == SelectSeq(t.signals, LAMBDA e : e.sig = sig)

\* The parser's result for the cluster selected in iteration t, computed from
\* the iteration's inputs alone.
SelectedOf(t) ==
    find_best_coordinate_cluster(cluster_detections_to_rich_clusters(
        run_yolo_inference(t.frame, confidence_threshold[Tracked],
                           t.fault = "classify_raises"))).best

ParsedSelected(t, best) ==
    IF best = NoCluster THEN NotParsed
    ELSE parse_and_validate_from_detections(best.detections, t.fault = "parse_raises")

Candidate(t) == ParsedSelected(t, SelectedOf(t))

\* c lies within both thresholds of the last accepted coordinate of pre.
WithinThresholds(pre, c) ==
    /\ Abs(c[3] - pre.last_valid_coord[3]) <= pre.z_axis_threshold
    /\ (c[1] - pre.last_valid_coord[1]) * (c[1] - pre.last_valid_coord[1])
       + (c[2] - pre.last_valid_coord[2]) * (c[2] - pre.last_valid_coord[2])
         <= pre.max_speed_threshold * pre.max_speed_threshold

\* C1: with lost_threshold_frames = N fixed, once a coordinate was accepted the
\* worker is LOCKED while fewer than N tracking iterations have failed in a
\* row since the last acceptance and LOST from the N-th on; and an iteration
\* that starts LOST and whose selected cluster parses ends LOCKED.
C1_LostAfterThreshold ==
    /\ last_valid_coord[Tracked] # None =>
          recognition_state[Tracked] =
              IF failed_ticks[Tracked] < lost_threshold_frames[Tracked] THEN LOCKED ELSE LOST
    /\ (LastTick.kind = "tracked" /\ LastTick.pre.recognition_state = LOST
        /\ Candidate(LastTick).ok) =>
          recognition_state[Tracked] = LOCKED /\ failed_ticks[Tracked] = 0

\* The second failed iteration in a row, with N = 2, has just moved the
\* worker from LOCKED to LOST.
C1_Witness ==
    /\ LastTick.kind = "tracked"
    /\ LastTick.pre.recognition_state = LOCKED
    /\ LastTick.pre.consecutive_failures = 1
    /\ lost_threshold_frames[Tracked] = 2
    /\ failed_ticks[Tracked] = 2
    /\ recognition_state[Tracked] = LOST

\* C2: a LOCKED iteration whose candidate parses but lies beyond a threshold
\* of the last accepted coordinate fails: nothing is emitted, the last
\* accepted coordinate and the template stay, the failure is counted; and a
\* coordinate accepted by a LOCKED iteration lies within both thresholds.
C2_TeleportRejected ==
    /\ (LastTick.kind = "tracked" /\ LastTick.pre.recognition_state = LOCKED
        /\ Candidate(LastTick).ok
        /\ ~WithinThresholds(LastTick.pre, Candidate(LastTick).coords)) =>
          /\ ~LastTick.success
          /\ SignalsOf(LastTick, "coordinates_detected") = <<>>
          /\ last_valid_coord[Tracked] = LastTick.pre.last_valid_coord
          /\ last_valid_detections[Tracked] = LastTick.pre.last_valid_detections
          /\ consecutive_failures[Tracked] = LastTick.pre.consecutive_failures + 1
    /\ (LastTick.kind = "tracked" /\ LastTick.pre.recognition_state = LOCKED
        /\ LastTick.success) =>
          WithinThresholds(LastTick.pre, LastTick.coords)

\* A LOCKED iteration has rejected a candidate for its height alone.
C2_Witness ==
    /\ LastTick.kind = "tracked"
    /\ LastTick.pre.recognition_state = LOCKED
    /\ Candidate(LastTick).ok
    /\ Abs(Candidate(LastTick).coords[3] - LastTick.pre.last_valid_coord[3])
          > LastTick.pre.z_axis_threshold
    /\ Candidate(LastTick).coords[1] = LastTick.pre.last_valid_coord[1]
    /\ Candidate(LastTick).coords[2] = LastTick.pre.last_valid_coord[2]
    /\ ~LastTick.success

\* C3: an iteration that starts SEARCHING or LOST and whose selected cluster
\* parses accepts the coordinate, however far from the last accepted one.
C3_AcceptedWithoutJumpCheck ==
    (LastTick.kind = "tracked" /\ LastTick.pre.recognition_state \in {SEARCHING, LOST}
     /\ Candidate(LastTick).ok) =>
        /\ LastTick.success
        /\ LastTick.coords = Candidate(LastTick).coords
        /\ last_valid_coord[Tracked] = Candidate(LastTick).coords
        /\ recognition_state[Tracked] = LOCKED

\* An iteration that started LOST has accepted a coordinate beyond the
\* thresholds of the last accepted one.
C3_Witness ==
    /\ LastTick.kind = "tracked"
    /\ LastTick.pre.recognition_state = LOST
    /\ LastTick.success
    /\ ~WithinThresholds(LastTick.pre, LastTick.coords)
    /\ last_valid_coord[Tracked] = LastTick.coords

AllowedTransitions == { <<SEARCHING, LOCKED>>, <<LOCKED, LOST>>, <<LOST, LOCKED>> }

StateMachineStep(w) ==
    /\ (pc[w] = "load" /\ pc'[w] = "loop") =>
          /\ recognition_state'[w] = SEARCHING
          /\ last_valid_coord'[w] = None
          /\ consecutive_failures'[w] = 0
    /\ recognition_state'[w] # recognition_state[w] =>
          /\ pc[w] = "tick"
          /\ tick'[w].kind = "tracked"
          /\ <<recognition_state[w], recognition_state'[w]>> \in AllowedTransitions
          /\ (recognition_state'[w] = LOCKED) = tick'[w].success

\* C4: a run starts SEARCHING with no last coordinate and counter 0; the
\* state changes only in a tracking iteration, only SEARCHING->LOCKED,
\* LOCKED->LOST or LOST->LOCKED, and to LOCKED exactly when the iteration
\* accepted a coordinate.
C4_OnlyThreeTransitions == [][\A w \in Workers : StateMachineStep(w)]_vars

\* A worker still SEARCHING after as many failed iterations as the threshold.
C4_Witness ==
    /\ LastTick.kind = "tracked"
    /\ ~LastTick.success
    /\ recognition_state[Tracked] = SEARCHING
    /\ consecutive_failures[Tracked] >= lost_threshold_frames[Tracked]

\* C5: an iteration that accepts a coordinate leaves the counter at 0, the
\* last accepted coordinate equal to it and the state LOCKED, and emits
\* coordinates_detected once, with it; any other iteration emits no
\* coordinates_detected and leaves the last accepted coordinate as it was.
C5_AcceptanceEffects ==
    IsIteration(LastTick) =>
        IF LastTick.success
        THEN /\ LastTick.coords # None
             /\ consecutive_failures[Tracked] = 0
             /\ last_valid_coord[Tracked] = LastTick.coords
             /\ recognition_state[Tracked] = LOCKED
             /\ SignalsOf(LastTick, "coordinates_detected")
                   = <<Signal("coordinates_detected", LastTick.coords)>>
        ELSE /\ SignalsOf(LastTick, "coordinates_detected") = <<>>
             /\ last_valid_coord[Tracked] = LastTick.pre.last_valid_coord

\* A LOCKED iteration with failures counted has accepted a new coordinate.
C5_Witness ==
    /\ LastTick.kind = "tracked"
    /\ LastTick.success
    /\ LastTick.pre.recognition_state = LOCKED
    /\ LastTick.pre.consecutive_failures > 0
    /\ LastTick.coords # LastTick.pre.last_valid_coord

\* C6: no iteration begins after stop_recognition was called on a worker
\* whose start_recognition had been called.
C6_StopHonoured == \A w \in Workers : ~started_after_stop[w]

\* C8: an iteration without an image changes none of the tracking fields,
\* emits no coordinate and no error, and the loop goes on: run() has not
\* ended unless a stop was requested.
C8_CaptureFailureSkips ==
    LastTick.kind = "skipped" =>
        /\ SelfOf(Tracked) = LastTick.pre
        /\ SignalsOf(LastTick, "coordinates_detected") = <<>>
        /\ SignalsOf(LastTick, "error_occurred") = <<>>
        /\ pc[Tracked] \in {"loop", "tick", "finished"}
        /\ pc[Tracked] = "finished" => should_stop[Tracked]

\* A LOCKED worker one failure short of LOST has skipped an iteration whose
\* capture raised.
C8_Witness ==
    /\ LastTick.kind = "skipped"
    /\ LastTick.fault = "capture_raises"
    /\ recognition_state[Tracked] = LOCKED
    /\ consecutive_failures[Tracked] + 1 = lost_threshold_frames[Tracked]

\* C9, as the specification words it: no iteration ends the loop, and no iteration emits an
\* error event.
C9_NoErrorEvent ==
    IsIteration(LastTick) =>
        /\ pc[Tracked] = "finished" => should_stop[Tracked]
        /\ SignalsOf(LastTick, "error_occurred") = <<>>

\* C9, amended: no iteration ends the loop; a capture, classification or
\* parsing failure emits no error event; an exception that leaves the
\* tracking algorithm is caught by the loop, which emits error_occurred once.
C9_FailuresAbsorbed ==
    IsIteration(LastTick) =>
        /\ pc[Tracked] \in {"loop", "tick", "finished"}
        /\ pc[Tracked] = "finished" => should_stop[Tracked]
        /\ IF LastTick.fault = "cluster_raises"
           THEN SignalsOf(LastTick, "error_occurred")
                   = <<Signal("error_occurred", <<"loop">>)>>
           ELSE SignalsOf(LastTick, "error_occurred") = <<>>

\* After an exception left the tracking algorithm the worker has begun
\* another iteration.
C9_Witness ==
    /\ LastTick.kind = "error"
    /\ LastTick.fault = "cluster_raises"
    /\ pc[Tracked] = "tick"
    /\ ~should_stop[Tracked]

\* ------------------------------------------------------------------------
\* Specification SpecMgr: OCRManager.start_ocr and stop_ocr called in any
\* order from the UI thread, the worker threads running beside it
\* ------------------------------------------------------------------------

\* The frame captured: it reads 0,0,0.
MgrFrames == FaultFrames

InitMgr ==
    /\ InitWorkers(MinOf(LostThresholds), MinOf(SpeedThresholds), MinOf(ZThresholds),
                   MinOf(ConfidenceThresholds))
    /\ InitManager
    /\ InitNoParse

NextMgr ==
    \/ \E config_ok \in BOOLEAN : StartOcr(config_ok)
    \/ StopOcr
    \/ \E timed_out \in BOOLEAN : StopReturns(timed_out)
    \/ \E w \in Workers : DeferredDelete(w)
    \/ \E w \in Workers : WorkerStep(w, MgrFrames)

SpecMgr == InitMgr /\ [][NextMgr]_vars

\* The workers whose poll loop is running.
Polling == { w \in Workers : pc[w] \in {"loop", "tick"} }

\* C7: under any sequence of start_ocr and stop_ocr calls at most one worker's
\* poll loop is running, and at most one iteration is in flight.
C7_SinglePollLoop == Cardinality(Polling) <= 1

\* ------------------------------------------------------------------------
\* Specification SpecParse: the parser applied to bounded texts
\* ------------------------------------------------------------------------

\* The longest run of digits in a text.
MaxDigits == 8

\* The longest text written over the short alphabet.
MaxFlatLen == 7

RECURSIVE Nines(_)
Nines(n) == IF n = 0 THEN <<>> ELSE <<"9">> \o Nines(n - 1)

\* What stands where a coordinate group is expected.
GroupTexts ==
    { <<>>, <<"0">>, <<"-", "1">>, <<"2", "0", "2", "5">>, <<"-">> \o Nines(MaxCoordDigits) }
    \cup { Nines(n) : n \in (MaxCoordDigits - 1)..MaxDigits }

\* What stands where a comma is expected, before the text and after it.
SeparatorTexts == { <<",">>, <<>>, <<":">>, <<" ", " ">> }
LeadingTexts == { <<>>, <<" ">>, <<"-">> }
TrailingTexts == { <<>>, <<",">>, <<"-", "0", "1">>, <<" ", "2", "0", "3", "1">> }

\* Texts built around the coordinate grammar.
GrammarTexts ==
    { pre \o g1 \o s1 \o g2 \o s2 \o g3 \o post :
        pre \in LeadingTexts, g1 \in GroupTexts, s1 \in SeparatorTexts,
        g2 \in GroupTexts, s2 \in SeparatorTexts, g3 \in GroupTexts,
        post \in TrailingTexts }

\* Every text over a short alphabet.
FlatTexts == UNION { [1..n -> {"1", ",", "-", " "}] : n \in 0..MaxFlatLen }

\* Coordinate readouts, alone or followed by a timestamp or a year.
ReadoutTexts ==
    { <<"-", "1", "2", "3", "4", ",", "5", "6", "7", "8", ",", "2", "0">>, <<"0", ",", "0", ",", "3", "9">>,
      <<"1", ",", "-", "2", ",", "3">>, <<"5", ",", "6", ",", "2", "0", "3", "1">> }
StampTexts ==
    { <<>>, <<"2", "0", "2", "5", "-", "0", "1", "-", "0", "1", " ", "1", "0", ":", "0", "0", ":", "0", "0">>,
      <<"2", "0", "3", "1", "-">>, <<"2", "0", "2", "5">>,
      <<"2", "0", "2", "5", "-", "0", "1", "-", "0", "1", " ", " ", "1", "0", ":", "0", "0">> }
GapTexts == { <<>>, <<" ">>, <<" ", " ">> }
StampedTexts ==
    { c \o gap \o stamp : c \in ReadoutTexts, gap \in GapTexts, stamp \in StampTexts }

ParseTexts == GrammarTexts \cup FlatTexts \cup StampedTexts

InitParse ==
    /\ parse_input \in ParseTexts
    /\ parse_result = Unset
    /\ cleaned_text = <<>>

\* One call of the parser on the text.
Parse ==
    /\ parse_result = Unset
    /\ parse_result' = ParseCoordString(parse_input)
    /\ cleaned_text' = remove_timestamp_from_coord_string(parse_input)
    /\ UNCHANGED <<parse_input, select_input, select_result, workerVars, managerVars, obsVars,
                   calibVars, storeVars, laterVars>>

InitSpecParse ==
    /\ InitWorkers(MinOf(LostThresholds), MinOf(SpeedThresholds), MinOf(ZThresholds),
                   MinOf(ConfidenceThresholds))
    /\ InitManager
    /\ InitParse
    /\ InitNoSelect
    /\ InitNoFit
    /\ InitNoStore
    /\ InitNoLater

SpecParse == InitSpecParse /\ [][Parse]_vars

\* The positions of the commas of s.
CommaPositions(s) == { i \in 1..Len(s) : s[i] = "," }

\* s is an optional minus sign and then between 1 and maxd digits.
IsSignedInt(s, maxd) ==
    /\ s # <<>>
    /\ Len(s) - (IF s[1] = "-" THEN 1 ELSE 0) \in 1..maxd
    /\ \A i \in 1..Len(s) : s[i] \in Digits \/ (i = 1 /\ s[i] = "-")

\* The text between positions a and b, both excluded.
Between(s, a, b) == SubSeq(s, a + 1, b - 1)

\* s matches ^-?\d{1,7},-?\d{1,7},-?\d{1,7}$ : exactly two commas, and three
\* signed integers of at most seven digits around them.
FullMatchAt(s, a, b) ==
    /\ IsSignedInt(Between(s, 0, a), MaxCoordDigits)
    /\ IsSignedInt(Between(s, a, b), MaxCoordDigits)
    /\ IsSignedInt(Between(s, b, Len(s) + 1), MaxCoordDigits)

FullMatch(s) ==
    /\ Cardinality(CommaPositions(s)) = 2
    /\ \E a, b \in CommaPositions(s) : a < b /\ FullMatchAt(s, a, b)

\* The integer a signed decimal numeral writes, digit by digit from the right.
RECURSIVE WrittenValue(_)
WrittenValue(s) ==
    IF s = <<>> THEN 0
    ELSE IF s[1] = "-" THEN 0 - WrittenValue(Tail(s))
    ELSE 10 * WrittenValue(SubSeq(s, 1, Len(s) - 1))
         + (CHOOSE n \in 0..9 : ToString(n) = s[Len(s)])

\* The three integers written in a text that matches in full.
WrittenIntegersAt(s, a, b) ==
    <<WrittenValue(Between(s, 0, a)), WrittenValue(Between(s, a, b)),
      WrittenValue(Between(s, b, Len(s) + 1))>>

WrittenIntegers(s) ==
    WrittenIntegersAt(s, CHOOSE a \in CommaPositions(s) : \A b \in CommaPositions(s) : a <= b,
                         CHOOSE b \in CommaPositions(s) : \A a \in CommaPositions(s) : a <= b)

\* Somewhere in s two commas separate three signed integer groups.
HasThreeGroups(s) ==
    \E a, b \in CommaPositions(s) :
        /\ 1 < a /\ a < b /\ b < Len(s)
        /\ s[a - 1] \in Digits
        /\ IsSignedInt(Between(s, a, b), Len(s))
        /\ \/ s[b + 1] \in Digits
           \/ s[b + 1] = "-" /\ b + 2 <= Len(s) /\ s[b + 2] \in Digits

\* C10: for a text that matches ^-?\d{1,7},-?\d{1,7},-?\d{1,7}$ in full the
\* parser succeeds with exactly the three integers written in it; for a text
\* without two commas separating three signed integer groups it returns
\* (False, None).
C10_GrammarCorrect ==
    parse_result # Unset =>
        /\ FullMatch(parse_input) =>
              parse_result.ok /\ parse_result.coords = WrittenIntegers(parse_input)
        /\ ~HasThreeGroups(parse_input) =>
              ~parse_result.ok /\ parse_result.coords = None

\* The parser has returned the integers of a full match whose first group is
\* negative and seven digits long.
C10_Witness ==
    /\ parse_result.ok
    /\ FullMatch(parse_input)
    /\ parse_result.coords[1] = 0 - max_coord_value
    /\ parse_result.coords[2] = 2025

\* The number of digits of a signed numeral.
DigitCount(s) == Len(s) - (IF s # <<>> /\ s[1] = "-" THEN 1 ELSE 0)

\* s is three signed integers of any length around two commas, one of them
\* written with more than seven digits.
OversizedAt(s, a, b) ==
    /\ IsSignedInt(Between(s, 0, a), Len(s))
    /\ IsSignedInt(Between(s, a, b), Len(s))
    /\ IsSignedInt(Between(s, b, Len(s) + 1), Len(s))
    /\ \/ DigitCount(Between(s, 0, a)) > MaxCoordDigits
       \/ DigitCount(Between(s, a, b)) > MaxCoordDigits
       \/ DigitCount(Between(s, b, Len(s) + 1)) > MaxCoordDigits

OversizedReadout(s) ==
    /\ Cardinality(CommaPositions(s)) = 2
    /\ \E a, b \in CommaPositions(s) : a < b /\ OversizedAt(s, a, b)

\* C11: a readout x,y,z in which a component is written with eight or more
\* digits is rejected: the parser produces no coordinate for it.
C11_OversizedRejected ==
    (parse_result # Unset /\ OversizedReadout(parse_input)) =>
        ~parse_result.ok /\ parse_result.coords = None

\* ------------------------------------------------------------------------
\* Specification SpecSelect: find_best_coordinate_cluster applied to bounded
\* lists of clusters
\* ------------------------------------------------------------------------

\* The longest list of clusters handed to the selector.
MaxClusters == 3

\* The words of the clusters: coordinate texts of length 5, 6 and 7, texts
\* that do not match, and words with a blank or with tabs in them.
ClusterWords ==
    { <<"0", ",", "0", ",", "0">>,
      <<"1", ",", "0", ",", "0">>,
      <<"-", "1", ",", "0", ",", "0">>,
      <<"0", ",", "0", ",", "0", "0", "0">>,
      <<"0", ",", "0">>,
      <<":", "0", ",", "0", ",", "0", ",", "0">>,
      <<"0", " ", ",", "0", ",", "0", "0">>,
      <<"0", ",", "0", ",", "0", "\t", "\t">> }

\* The i-th cluster of a list, with word w: its detections tell it from the
\* other clusters of the list.
ClusterOf(i, w) ==
    [word |-> w, detections |-> <<[class |-> i, x1 |-> 10 * i, x2 |-> 10 * i + 8, conf |-> 90]>>]

ClusterLists ==
    UNION { { [i \in 1..n |-> ClusterOf(i, ws[i])] : ws \in [1..n -> ClusterWords] } :
            n \in 0..MaxClusters }

InitSelect ==
    /\ select_input \in ClusterLists
    /\ select_result = NotSelected

\* One call of the selector on the list.
Select ==
    /\ select_result = NotSelected
    /\ select_result' = find_best_coordinate_cluster(select_input)
    /\ UNCHANGED <<select_input, parse_input, parse_result, cleaned_text, workerVars,
                   managerVars, obsVars, calibVars, storeVars,
                   laterVars>>

InitSpecSelect ==
    /\ InitWorkers(MinOf(LostThresholds), MinOf(SpeedThresholds), MinOf(ZThresholds),
                   MinOf(ConfidenceThresholds))
    /\ InitManager
    /\ parse_input = <<>>
    /\ parse_result = Unset
    /\ cleaned_text = <<>>
    /\ InitSelect
    /\ InitNoFit
    /\ InitNoStore
    /\ InitNoLater

SpecSelect == InitSpecSelect /\ [][Select]_vars

\* The word without its blanks and tabs.
StrippedWord(w) == SelectSeq(w, LAMBDA c : c \notin {" ", "\t"})

\* s begins with a match of -?\d{1,7},-?\d{1,7},-?\d{1,7}.
BeginsWithCoordinate(s) ==
    \E a, b \in CommaPositions(s) :
        /\ a < b
        /\ IsSignedInt(Between(s, 0, a), MaxCoordDigits)
        /\ IsSignedInt(Between(s, a, b), MaxCoordDigits)
        /\ \/ b + 1 <= Len(s) /\ s[b + 1] \in Digits
           \/ b + 2 <= Len(s) /\ s[b + 1] = "-" /\ s[b + 2] \in Digits

\* The positions of the matching clusters of a list.
MatchingClusters(cs) ==
    { i \in 1..Len(cs) : BeginsWithCoordinate(StrippedWord(cs[i].word)) }

\* The first of the matching clusters with the longest stripped word.
FirstLongest(cs) ==
    CHOOSE i \in MatchingClusters(cs) :
        \A k \in MatchingClusters(cs) :
            \/ Len(StrippedWord(cs[k].word)) < Len(StrippedWord(cs[i].word))
            \/ Len(StrippedWord(cs[k].word)) = Len(StrippedWord(cs[i].word)) /\ i <= k

\* C12: find_best_coordinate_cluster returns the first of the matching
\* clusters with the longest stripped word, no cluster when none matches,
\* and one match/no-match detail per cluster, in the order of the list.
C12_FirstLongestMatch ==
    select_result # NotSelected =>
        /\ select_result.best =
              IF MatchingClusters(select_input) = {} THEN NoCluster
              ELSE select_input[FirstLongest(select_input)]
        /\ Len(select_result.details) = Len(select_input)
        /\ \A i \in 1..Len(select_input) :
              /\ select_result.details[i].word = select_input[i].word
              /\ select_result.details[i].matched = (i \in MatchingClusters(select_input))

\* ------------------------------------------------------------------------
\* Timestamp removal (specification SpecParse)
\* ------------------------------------------------------------------------

\* The year-and-dash tokens 20[23]\d- .
YearDashTokens == { <<"2", "0", d3, d4, "-">> : d3 \in {"2", "3"}, d4 \in Digits }
YearTokens == { <<"2", "0", d3, d4>> : d3 \in {"2", "3"}, d4 \in Digits }

\* The positions of s that are not blank.
Inked(s) == { i \in 1..Len(s) : s[i] # " " }

\* s without its leading and trailing blanks, and without the trailing ones.
Trimmed(s) ==
    IF Inked(s) = {} THEN <<>>
    ELSE SubSeq(s, CHOOSE i \in Inked(s) : \A k \in Inked(s) : i <= k,
                   CHOOSE i \in Inked(s) : \A k \in Inked(s) : k <= i)
RightTrimmed(s) ==
    IF Inked(s) = {} THEN <<>>
    ELSE SubSeq(s, 1, CHOOSE i \in Inked(s) : \A k \in Inked(s) : k <= i)

\* Where the rules apply: a year-and-dash token, a run of two blanks, the
\* blanks before a year that ends the text.
YearDashStarts(s) == { i \in 1..Len(s) : i + 4 <= Len(s) /\ SubSeq(s, i, i + 4) \in YearDashTokens }
BlankRunStarts(s) == { i \in 1..Len(s) : i < Len(s) /\ SubSeq(s, i, i + 1) = <<" ", " ">> }
FinalYearStarts(s) ==
    { i \in 1..Len(s) : /\ i + 4 <= Len(s)
                        /\ SubSeq(s, Len(s) - 3, Len(s)) \in YearTokens
                        /\ Inked(SubSeq(s, i, Len(s) - 4)) = {} }

\* The text before the least position of a non-empty set.
Before(s, starts) == SubSeq(s, 1, (CHOOSE i \in starts : \A k \in starts : i <= k) - 1)

\* The rules of timestamp removal in their priority order.
ByPriority(s) ==
    IF YearDashStarts(s) # {} THEN RightTrimmed(Before(s, YearDashStarts(s)))
    ELSE IF BlankRunStarts(s) # {} THEN Trimmed(Before(s, BlankRunStarts(s)))
    ELSE IF FinalYearStarts(s) # {} THEN Trimmed(Before(s, FinalYearStarts(s)))
    ELSE s

\* s is a readout c, at most two blanks and something that begins with a
\* year-and-dash token.
ReadoutThenStamp(s, c) ==
    /\ FullMatch(c)
    /\ Len(c) < Len(s) /\ SubSeq(s, 1, Len(c)) = c
    /\ \E i \in YearDashStarts(s) : i > Len(c) /\ Inked(SubSeq(s, Len(c) + 1, i - 1)) = {}

\* C13: timestamp removal applies its rules in priority order; a readout
\* followed by a YYYY- timestamp is cut back to exactly the readout and parsed
\* to its integers; a readout that stands alone, whatever its z, is unchanged.
C13_TimestampRemoved ==
    parse_result # Unset =>
        /\ cleaned_text = ByPriority(parse_input)
        /\ \A c \in ReadoutTexts :
              ReadoutThenStamp(parse_input, c) =>
                  /\ cleaned_text = c
                  /\ parse_result.ok /\ parse_result.coords = WrittenIntegers(c)
        /\ FullMatch(parse_input) => cleaned_text = parse_input

\* "-1234,5678,20 2025-01-01 10:00:00" was cut back to "-1234,5678,20" and
\* parsed as (-1234, 5678, 20).
C13_Witness ==
    /\ parse_input = <<"-", "1", "2", "3", "4", ",", "5", "6", "7", "8", ",", "2", "0", " ", "2", "0", "2", "5", "-", "0", "1", "-", "0", "1", " ", "1", "0", ":", "0", "0", ":", "0", "0">>
    /\ cleaned_text = <<"-", "1", "2", "3", "4", ",", "5", "6", "7", "8", ",", "2", "0">>
    /\ parse_result.ok
    /\ parse_result.coords = <<0 - 1234, 5678, 20>>

\* ------------------------------------------------------------------------
\* The events of the worker (specification Spec)
\* ------------------------------------------------------------------------

\* What an iteration, or the start of run(), emits of recognition_state_changed
\* if it is emitted once for a change of the state and not otherwise.
OncePerChange(t, now) ==
    SignalsOf(t, "recognition_state_changed") =
        IF t.pre.recognition_state # now
        THEN <<Signal("recognition_state_changed", <<now>>)>>
        ELSE <<>>

\* C14, as the specification words it: recognition_state_changed is emitted
\* once for each change of the state, with the new state, and never when the
\* state does not change.
C14_OncePerTransition ==
    LastTick.kind # "none" => OncePerChange(LastTick, recognition_state[Tracked])

\* C14, amended: the start of run() emits recognition_state_changed once with
\* SEARCHING, changed or not; a failed model load emits none; every loop
\* iteration emits it once, with the new state, if it changed the state and
\* not otherwise.
C14_OncePerTransitionAfterStart ==
    /\ LastTick.kind = "run_start" =>
          SignalsOf(LastTick, "recognition_state_changed")
              = <<Signal("recognition_state_changed", <<SEARCHING>>)>>
    /\ LastTick.kind = "load_failed" =>
          SignalsOf(LastTick, "recognition_state_changed") = <<>>
    /\ IsIteration(LastTick) => OncePerChange(LastTick, recognition_state[Tracked])

\* An iteration has changed LOCKED to LOST and emitted LOST once.
C14_Witness ==
    /\ LastTick.kind = "tracked"
    /\ LastTick.pre.recognition_state = LOCKED
    /\ recognition_state[Tracked] = LOST
    /\ SignalsOf(LastTick, "recognition_state_changed")
          = <<Signal("recognition_state_changed", <<LOST>>)>>

\* The number of ocr_output_updated events of an iteration.
Diagnostics(t) == Len(SignalsOf(t, "ocr_output_updated"))

\* C15, as the specification words it: every iteration emits exactly one
\* diagnostic event.
C15_OneDiagnosticPerTick ==
    IsIteration(LastTick) => Diagnostics(LastTick) = 1

\* The diagnostics of a tracking iteration, given the cluster it selected:
\* one without a cluster; with a cluster the parser's two and the final one,
\* or, when the parser raised, its error diagnostic and the final one.
TrackedDiagnostics(t, best) ==
    IF best = NoCluster THEN Diagnostics(t) = 1
    ELSE IF t.fault = "parse_raises" THEN Diagnostics(t) \in 2..3
    ELSE Diagnostics(t) = 3

\* C15, amended: a skipped iteration and an iteration without a matching
\* cluster emit one diagnostic event; an iteration that hands a cluster to
\* the parser emits three, the last being its own; an iteration ended by an
\* exception that left the tracking algorithm emits none.
C15_DiagnosticsPerTick ==
    /\ LastTick.kind = "skipped" => Diagnostics(LastTick) = 1
    /\ LastTick.kind = "error" => Diagnostics(LastTick) = 0
    /\ LastTick.kind = "tracked" =>
          /\ TrackedDiagnostics(LastTick, SelectedOf(LastTick))
          /\ LastTick.signals[Len(LastTick.signals)].sig = "ocr_output_updated"

\* A LOCKED iteration has rejected a parsed candidate and emitted three
\* diagnostic events.
C15_Witness ==
    /\ LastTick.kind = "tracked"
    /\ LastTick.pre.recognition_state = LOCKED
    /\ Candidate(LastTick).ok
    /\ ~LastTick.success
    /\ Diagnostics(LastTick) = 3

\* C16: when the model cannot be loaded run() emits an error event and
\* returns: no iteration is made, no coordinate and no state event is
\* emitted, the tracking fields are as constructed and is_running is false.
C16_LoadFailureHalts ==
    LastTick.kind = "load_failed" =>
        /\ SignalsOf(LastTick, "error_occurred") # <<>>
        /\ SignalsOf(LastTick, "coordinates_detected") = <<>>
        /\ SignalsOf(LastTick, "recognition_state_changed") = <<>>
        /\ pc[Tracked] = "finished"
        /\ ~is_running[Tracked]
        /\ SelfOf(Tracked) = LastTick.pre
        /\ last_valid_coord[Tracked] = None
        /\ failed_ticks[Tracked] = 0
        /\ ~started_after_stop[Tracked]

\* run() has returned after a failed model load, no stop having been asked.
C16_Witness ==
    /\ LastTick.kind = "load_failed"
    /\ pc[Tracked] = "finished"
    /\ ~should_stop[Tracked]
    /\ ~stop_requested[Tracked]

\* ======================================================================
\* Calibration: src/src/main_app.py
\* ======================================================================

\* ---- exact arithmetic -------------------------------------------------
\* A scalar of the solver is a fraction <<numerator, denominator>> in
\* lowest terms with a positive denominator.
RECURSIVE Gcd(_, _)
Gcd(a, b) == IF b = 0 THEN a ELSE Gcd(b, a % b)

Rat(n, d) ==
    LET g == Gcd(Abs(n), Abs(d))
        s == IF d < 0 THEN -1 ELSE 1
    IN  <<(s * n) \div g, (s * d) \div g>>

RatOfInt(i) == <<i, 1>>
RatAdd(p, q) == Rat(p[1] * q[2] + q[1] * p[2], p[2] * q[2])
RatMul(p, q) == Rat(p[1] * q[1], p[2] * q[2])

RECURSIVE Sum(_)
Sum(s) == IF s = <<>> THEN 0 ELSE Head(s) + Sum(Tail(s))

Dot(r, q) == r[1] * q[1] + r[2] * q[2] + r[3] * q[3]
Cross(r, q) == <<r[2] * q[3] - r[3] * q[2], r[3] * q[1] - r[1] * q[3],
                 r[1] * q[2] - r[2] * q[1]>>
Det3(r, q, t) == Dot(r, Cross(q, t))
Zero3 == <<0, 0, 0>>

\* ---- CalibrationPoint, TransformMatrix --------------------------------
\* x is a float typed by the user: float() also accepts "nan", for which
\* `finite` is false.
CalibrationPoint(x, y, lat, lon) == [x |-> x, y |-> y, lat |-> lat, lon |-> lon, finite |-> TRUE]
NanPoint(lat, lon) == [x |-> 0, y |-> 0, lat |-> lat, lon |-> lon, finite |-> FALSE]

TransformMatrix(a, b, c, d, e, f) == <<a, b, c, d, e, f>>

\* ---- numpy.linalg.lstsq -----------------------------------------------
\* The rows of the matrix M (n x 3) that are linearly independent of the
\* rows before them give its rank.
RankOf(M) ==
    LET idx == 1..Len(M)
    IN  IF \E i \in idx, j \in idx, k \in idx : Det3(M[i], M[j], M[k]) # 0 THEN 3
        ELSE IF \E i \in idx, j \in idx : Cross(M[i], M[j]) # Zero3 THEN 2
        ELSE IF \E i \in idx : M[i] # Zero3 THEN 1
        ELSE 0

\* Rank 3: the normal equations (M^T M) u = M^T t by Cramer's rule.
SolveRank3(M, t) ==
    LET idx == 1..Len(M)
        N(a, b) == Sum([i \in idx |-> M[i][a] * M[i][b]])
        g(a) == Sum([i \in idx |-> M[i][a] * t[i]])
        r1 == <<N(1, 1), N(1, 2), N(1, 3)>>
        r2 == <<N(2, 1), N(2, 2), N(2, 3)>>
        r3 == <<N(3, 1), N(3, 2), N(3, 3)>>
        gv == <<g(1), g(2), g(3)>>
        det == Det3(r1, r2, r3)
        c1 == Cross(r2, r3)
        c2 == Cross(r3, r1)
        c3 == Cross(r1, r2)
    IN  <<Rat(c1[1] * gv[1] + c2[1] * gv[2] + c3[1] * gv[3], det),
          Rat(c1[2] * gv[1] + c2[2] * gv[2] + c3[2] * gv[3], det),
          Rat(c1[3] * gv[1] + c2[3] * gv[2] + c3[3] * gv[3], det)>>

\* Rank 2: the solution of minimum norm lies in the row space, spanned by
\* two independent rows p and q: u = w1 p + w2 q with w the least-squares
\* solution of (M [p q]) w = t.
SolveRank2(M, t) ==
    LET idx == 1..Len(M)
        pq == CHOOSE ij \in idx \X idx :
                 /\ Cross(M[ij[1]], M[ij[2]]) # Zero3
                 /\ \A kl \in idx \X idx : Cross(M[kl[1]], M[kl[2]]) # Zero3 =>
                        \/ ij[1] < kl[1]
                        \/ ij[1] = kl[1] /\ ij[2] <= kl[2]
        p == M[pq[1]]
        q == M[pq[2]]
        s11 == Sum([i \in idx |-> Dot(M[i], p) * Dot(M[i], p)])
        s12 == Sum([i \in idx |-> Dot(M[i], p) * Dot(M[i], q)])
        s22 == Sum([i \in idx |-> Dot(M[i], q) * Dot(M[i], q)])
        h1 == Sum([i \in idx |-> Dot(M[i], p) * t[i]])
        h2 == Sum([i \in idx |-> Dot(M[i], q) * t[i]])
        det == s11 * s22 - s12 * s12
        w1 == s22 * h1 - s12 * h2
        w2 == s11 * h2 - s12 * h1
    IN  <<Rat(w1 * p[1] + w2 * q[1], det),
          Rat(w1 * p[2] + w2 * q[2], det),
          Rat(w1 * p[3] + w2 * q[3], det)>>

\* Rank 1: every row is a multiple of one row p, and u = w p.
SolveRank1(M, t) ==
    LET idx == 1..Len(M)
        p == M[MinOf({i \in idx : M[i] # Zero3})]
        s == Sum([i \in idx |-> Dot(M[i], p) * Dot(M[i], p)])
        h == Sum([i \in idx |-> Dot(M[i], p) * t[i]])
    IN  <<Rat(h * p[1], s), Rat(h * p[2], s), Rat(h * p[3], s)>>

\* The least-squares solution of minimum norm of M u = t, which is what
\* lstsq returns whatever the rank of M.
MinNormSolution(M, t) ==
    LET rank == RankOf(M)
    IN  IF rank = 3 THEN SolveRank3(M, t)
        ELSE IF rank = 2 THEN SolveRank2(M, t)
        ELSE IF rank = 1 THEN SolveRank1(M, t)
        ELSE <<RatOfInt(0), RatOfInt(0), RatOfInt(0)>>

\* lstsq(A, b, rcond=None)[0] for the matrix built by
\* calculate_transform_matrix: its odd rows are zero in columns 4..6 and
\* its even rows in columns 1..3, so the six unknowns split into two
\* independent systems of three.  lstsq raises LinAlgError only when the
\* SVD does not converge, which is the case of a nan entry.
LinAlgError == [raised |-> TRUE, x |-> <<>>]

lstsq(A, b, finite) ==
    LET n == Len(A) \div 2
        upper == [i \in 1..n |-> SubSeq(A[2 * i - 1], 1, 3)]
        lower == [i \in 1..n |-> SubSeq(A[2 * i], 4, 6)]
        b_upper == [i \in 1..n |-> b[2 * i - 1]]
        b_lower == [i \in 1..n |-> b[2 * i]]
    IN  IF ~finite THEN LinAlgError
        ELSE [raised |-> FALSE,
              x |-> MinNormSolution(upper, b_upper) \o MinNormSolution(lower, b_lower)]

\* ---- CalibrationSystem ------------------------------------------------
\* Row 2*i of A in the code is row 2*i - 1 here (sequences start at 1).
DesignRow(points, k) ==
    LET point == points[(k + 1) \div 2]
    IN  IF k % 2 = 1 THEN <<point.x, point.y, 1, 0, 0, 0>>
        ELSE <<0, 0, 0, point.x, point.y, 1>>

DesignRhs(points, k) ==
    LET point == points[(k + 1) \div 2]
    IN  IF k % 2 = 1 THEN point.lat ELSE point.lon

Raised(name) == [raised |-> name, matrix |-> None]
Returned(matrix) == [raised |-> "none", matrix |-> matrix]

\* calculate_transform_matrix changed: a single point is enough.
calculate_transform_matrix_OnePoint(points) ==
    IF Len(points) < 1 THEN Raised("calibration_min_points")
    ELSE
        LET n == Len(points)
            A == [k \in 1..(2 * n) |-> DesignRow(points, k)]
            b == [k \in 1..(2 * n) |-> DesignRhs(points, k)]
            solved == lstsq(A, b, \A i \in 1..n : points[i].finite)
            x == solved.x
        IN  IF solved.raised THEN Raised("transform_matrix_error")
            ELSE Returned(TransformMatrix(x[1], x[2], x[3], x[4], x[5], x[6]))

\* CalibrationSystem.calculate_transform_matrix: what it raises, or the
\* matrix it returns.
calculate_transform_matrix(points) ==
    IF Len(points) < 2 THEN Raised("calibration_min_points")
    ELSE
        LET n == Len(points)
            A == [k \in 1..(2 * n) |-> DesignRow(points, k)]
            b == [k \in 1..(2 * n) |-> DesignRhs(points, k)]
            solved == lstsq(A, b, \A i \in 1..n : points[i].finite)
            x == solved.x
        IN  IF solved.raised THEN Raised("transform_matrix_error")
            ELSE Returned(TransformMatrix(x[1], x[2], x[3], x[4], x[5], x[6]))

\* transform changed: the constant terms c and f are left out.
transform_NoOffset(x, y, matrix) ==
    <<RatAdd(RatMul(matrix[1], RatOfInt(x)), RatMul(matrix[2], RatOfInt(y))),
      RatAdd(RatMul(matrix[4], RatOfInt(x)), RatMul(matrix[5], RatOfInt(y)))>>

\* CalibrationSystem.transform, for a matrix that is not None: <<lat, lon>>.
transform(x, y, matrix) ==
    <<RatAdd(RatAdd(RatMul(matrix[1], RatOfInt(x)), RatMul(matrix[2], RatOfInt(y))),
             matrix[3]),
      RatAdd(RatAdd(RatMul(matrix[4], RatOfInt(x)), RatMul(matrix[5], RatOfInt(y))),
             matrix[6])>>

\* ---- CalibrationDataManager -------------------------------------------
\* A name or an area id is a text: a sequence of tokens, "_" being the
\* underscore and every other token a run of other characters.  The
\* f-string of get_map_key is the concatenation; `area_id or 'default'`
\* takes 'default' for None and for the empty text alike.
get_map_key(mode, provider_or_map_name, area_id) ==
    IF mode = "online"
    THEN <<"online", "_">> \o provider_or_map_name \o <<"_">> \o
         (IF area_id = <<>> THEN <<"default">> ELSE area_id)
    ELSE <<"local", "_">> \o provider_or_map_name

\* The dictionary `data` with data[map_key] = value.
SetItem(data, map_key, value) ==
    [k \in DOMAIN data \cup {map_key} |-> IF k = map_key THEN value ELSE data[k]]

\* The dictionary `data` after `del data[map_key]`.
DelItem(data, map_key) == [k \in DOMAIN data \ {map_key} |-> data[k]]

\* save_calibration: the JSON object written to the file.
save_calibration(data, mode, provider_or_map_name, matrix, area_id, now) ==
    LET map_key == get_map_key(mode, provider_or_map_name, area_id)
        calibration == [mode |-> mode,
                        provider_or_map_name |-> provider_or_map_name,
                        area_id |-> area_id,
                        matrix |-> [a |-> matrix[1], b |-> matrix[2], c |-> matrix[3],
                                    d |-> matrix[4], e |-> matrix[5], f |-> matrix[6]],
                        timestamp |-> now]
    IN  SetItem(data, map_key, calibration)

\* load_calibration: the TransformMatrix rebuilt from the record, or None.
load_calibration(data, mode, provider_or_map_name, area_id) ==
    LET map_key == get_map_key(mode, provider_or_map_name, area_id)
    IN  IF map_key \in DOMAIN data
        THEN LET matrix_data == data[map_key].matrix
             IN  TransformMatrix(matrix_data.a, matrix_data.b, matrix_data.c,
                                 matrix_data.d, matrix_data.e, matrix_data.f)
        ELSE None

\* delete_calibration: the JSON object in the file afterwards.
delete_calibration(data, mode, provider_or_map_name, area_id) ==
    LET map_key == get_map_key(mode, provider_or_map_name, area_id)
    IN  IF map_key \in DOMAIN data THEN DelItem(data, map_key) ELSE data

\* ---- CalibrationWindow.finish_calibration -----------------------------
\* The map shown while calibrating: an online provider, no area selected.
CurrentProvider == <<"a">>
CurrentArea == None

\* finish_calibration with the slot MainWindow.on_calibration_finished,
\* which runs inside emit() and saves through save_current_calibration.
\* The button is enabled once two points were added.
FinishCalibration ==
    /\ finished = NotFinished
    /\ Len(calibration_points) >= 2
    /\ LET result == calculate_transform_matrix(calibration_points)
       IN  IF result.raised = "none"
           THEN /\ transform_matrix' = result.matrix
                /\ app_transform_matrix' = result.matrix
                /\ calibration_data' = save_calibration(calibration_data, "online",
                       CurrentProvider, result.matrix, CurrentArea, store_ops + 1)
                /\ store_ops' = store_ops + 1
                /\ finished' = [signals |-> <<Signal("calibrationFinished", result.matrix)>>,
                                dialog |-> "information", accepted |-> TRUE]
           ELSE /\ finished' = [signals |-> <<>>, dialog |-> "critical", accepted |-> FALSE]
                /\ UNCHANGED <<transform_matrix, app_transform_matrix, calibration_data,
                               store_ops>>
    /\ UNCHANGED <<calibration_points, fit_result, last_saved, loaded, workerVars,
                   managerVars, obsVars, parseVars, laterVars>>

\* One call of calculate_transform_matrix on the points.
Fit ==
    /\ fit_result = NotFitted
    /\ fit_result' = calculate_transform_matrix(calibration_points)
    /\ UNCHANGED <<calibration_points, transform_matrix, app_transform_matrix, finished,
                   storeVars, workerVars, managerVars, obsVars, parseVars, laterVars>>

\* ---- the solver on bounded point lists --------------------------------
MaxPoints == 3
GamePositions == {<<0, 0>>, <<1, 0>>, <<3, 0>>, <<0, 2>>}
GeoPairs == {<<-1, 3>>, <<2, 0>>}

Points ==
    { CalibrationPoint(xy[1], xy[2], g[1], g[2]) : xy \in GamePositions, g \in GeoPairs }
    \cup { NanPoint(2, 0) }

PointLists == UNION { [1..n -> Points] : n \in 0..MaxPoints }

InitFit ==
    /\ calibration_points \in PointLists
    /\ transform_matrix = None
    /\ app_transform_matrix = None
    /\ fit_result = NotFitted
    /\ finished = NotFinished

InitSpecCalib ==
    /\ InitWorkers(MinOf(LostThresholds), MinOf(SpeedThresholds), MinOf(ZThresholds),
                   MinOf(ConfidenceThresholds))
    /\ InitManager
    /\ parse_input = <<>>
    /\ parse_result = Unset
    /\ cleaned_text = <<>>
    /\ InitNoSelect
    /\ InitFit
    /\ InitNoStore
    /\ InitNoLater

NextCalib ==
    \/ Fit
    \/ FinishCalibration

SpecCalib == InitSpecCalib /\ [][NextCalib]_vars

\* C17: calculate_transform_matrix raises the not-enough-points error
\* exactly when it is given fewer than two points; given exactly two
\* points, none of them nan, it returns a transform.
C17_MinimumTwoPoints ==
    fit_result # NotFitted =>
        /\ fit_result.raised = "calibration_min_points" <=> Len(calibration_points) < 2
        /\ (Len(calibration_points) = 2 /\ \A i \in 1..2 : calibration_points[i].finite) =>
              /\ fit_result.raised = "none"
              /\ Len(fit_result.matrix) = 6

\* Two points were fitted and a transform came back.
C17_Witness ==
    /\ Len(calibration_points) = 2
    /\ fit_result.raised = "none"
    /\ fit_result.matrix # None

\* Three points of game space that do not lie on one line.
NonCollinear(p1, p2, p3) ==
    (p2.x - p1.x) * (p3.y - p1.y) # (p3.x - p1.x) * (p2.y - p1.y)

\* The fraction q is within 1e-6 of the integer v.
WithinTolerance(q, v) == Abs(q[1] - v * q[2]) * 1000000 <= q[2]

\* The matrix sends the point's game coordinates to its geographic ones.
Reproduces(matrix, point) ==
    LET geo == transform(point.x, point.y, matrix)
    IN  /\ WithinTolerance(geo[1], point.lat)
        /\ WithinTolerance(geo[2], point.lon)

ThreeNonCollinear ==
    /\ Len(calibration_points) = 3
    /\ \A i \in 1..3 : calibration_points[i].finite
    /\ NonCollinear(calibration_points[1], calibration_points[2], calibration_points[3])

SingularPoints ==
    /\ Len(calibration_points) >= 2
    /\ \A i \in 1..Len(calibration_points) : calibration_points[i].finite
    /\ \A i, j, k \in 1..Len(calibration_points) :
          ~NonCollinear(calibration_points[i], calibration_points[j], calibration_points[k])

\* C19: for points whose linear system is singular the solver raises the
\* computation error, and finish_calibration shows the failure: no
\* transform is returned, kept, emitted or saved.
C19_SingularRejected ==
    SingularPoints =>
        /\ fit_result # NotFitted =>
              /\ fit_result.raised = "transform_matrix_error"
              /\ fit_result.matrix = None
        /\ finished # NotFinished =>
              /\ finished.signals = <<>>
              /\ finished.dialog = "critical"
              /\ ~finished.accepted
              /\ transform_matrix = None
              /\ app_transform_matrix = None
              /\ calibration_data = <<>>

\* ---- the store under bounded call sequences ---------------------------
MaxStoreOps == 3
Modes == {"online", "local"}
MapNames == {<<"a">>, <<"a", "_", "b">>}
AreaIds == {None, <<"c">>, <<"b", "_", "c">>}
Matrices == {TransformMatrix(1, 2, 3, 4, 5, 6), TransformMatrix(6, 5, 4, 3, 2, 1)}
MapIds == Modes \X MapNames \X AreaIds

InitStore ==
    /\ calibration_data = <<>>
    /\ last_saved = [id \in MapIds |-> None]
    /\ loaded = NotLoaded
    /\ store_ops = 0

\* One call of save_calibration; the file is written and True returned.
SaveCalibration(mode, provider_or_map_name, matrix, area_id) ==
    /\ store_ops < MaxStoreOps
    /\ store_ops' = store_ops + 1
    /\ calibration_data' = save_calibration(calibration_data, mode, provider_or_map_name,
                                            matrix, area_id, store_ops + 1)
    /\ last_saved' = [last_saved EXCEPT ![<<mode, provider_or_map_name, area_id>>] = matrix]
    /\ UNCHANGED <<loaded, calibVars, workerVars, managerVars, obsVars, parseVars, laterVars>>

\* One call of delete_calibration.
DeleteCalibration(mode, provider_or_map_name, area_id) ==
    /\ store_ops < MaxStoreOps
    /\ store_ops' = store_ops + 1
    /\ calibration_data' = delete_calibration(calibration_data, mode, provider_or_map_name,
                                              area_id)
    /\ last_saved' = [last_saved EXCEPT ![<<mode, provider_or_map_name, area_id>>] = None]
    /\ UNCHANGED <<loaded, calibVars, workerVars, managerVars, obsVars, parseVars, laterVars>>

\* One call of load_calibration.
LoadCalibration(mode, provider_or_map_name, area_id) ==
    /\ store_ops < MaxStoreOps
    /\ store_ops' = store_ops + 1
    /\ loaded' = [query |-> <<mode, provider_or_map_name, area_id>>,
                  result |-> load_calibration(calibration_data, mode,
                                              provider_or_map_name, area_id),
                  expected |-> last_saved[<<mode, provider_or_map_name, area_id>>]]
    /\ UNCHANGED <<calibration_data, last_saved, calibVars, workerVars, managerVars,
                   obsVars, parseVars, laterVars>>

InitSpecStore ==
    /\ InitWorkers(MinOf(LostThresholds), MinOf(SpeedThresholds), MinOf(ZThresholds),
                   MinOf(ConfidenceThresholds))
    /\ InitManager
    /\ parse_input = <<>>
    /\ parse_result = Unset
    /\ cleaned_text = <<>>
    /\ InitNoSelect
    /\ InitNoFit
    /\ InitStore
    /\ InitNoLater

NextStore ==
    \/ \E mode \in Modes, name \in MapNames, matrix \in Matrices, area \in AreaIds :
          SaveCalibration(mode, name, matrix, area)
    \/ \E mode \in Modes, name \in MapNames, area \in AreaIds :
          DeleteCalibration(mode, name, area)
    \/ \E mode \in Modes, name \in MapNames, area \in AreaIds :
          LoadCalibration(mode, name, area)

SpecStore == InitSpecStore /\ [][NextStore]_vars

\* C20: load_calibration(mode, name, area) returns the matrix most
\* recently saved under that same (mode, name, area), or None when
\* nothing was saved under it or it was deleted since: calls for another
\* (mode, name, area) do not change what is loaded.
C20_LoadsLatestSave ==
    loaded # NotLoaded => loaded.result = loaded.expected

\* ======================================================================
\* The calibration file and the application: src/src/main_app.py
\* ======================================================================

\* load_all_calibrations: the JSON object of the file, or {} when the file
\* cannot be opened or parsed (the exception is swallowed).
load_all_calibrations(file, readable) == IF readable THEN file ELSE <<>>

\* `with open(file, 'w') as f: json.dump(data, f)`: the file afterwards.
\* open() may raise, which leaves the file as it was; json.dump may raise
\* after open() truncated the file, which leaves a file that no longer
\* parses, read back as {} by load_all_calibrations.
WriteOutcomes == {"ok", "open_fails", "dump_fails"}
write_file(file, data, write) ==
    IF write = "ok" THEN data
    ELSE IF write = "open_fails" THEN file
    ELSE <<>>

\* save_calibration with its file accesses: the file afterwards and the
\* value returned.
save_calibration_io(file, mode, provider_or_map_name, matrix, area_id, now, readable, write) ==
    LET data == load_all_calibrations(file, readable)
        saved == save_calibration(data, mode, provider_or_map_name, matrix, area_id, now)
    IN  [file |-> write_file(file, saved, write), returned |-> write = "ok",
         fault |-> <<readable, write>>]

\* delete_calibration with its file accesses.
delete_calibration_io(file, mode, provider_or_map_name, area_id, readable, write) ==
    LET data == load_all_calibrations(file, readable)
        map_key == get_map_key(mode, provider_or_map_name, area_id)
    IN  IF map_key \in DOMAIN data
        THEN [file |-> write_file(file, DelItem(data, map_key), write),
              returned |-> write = "ok", fault |-> <<readable, write>>]
        ELSE [file |-> file, returned |-> FALSE, fault |-> <<readable, "ok">>]

\* ---- the application ----------------------------------------------------
MaxAppOps == 4
AppAreas == {<<"8">>, <<"9">>}
AppMatrices ==
    {TransformMatrix(RatOfInt(1), RatOfInt(0), RatOfInt(0),
                     RatOfInt(0), RatOfInt(1), RatOfInt(0)),
     TransformMatrix(RatOfInt(2), RatOfInt(0), RatOfInt(1),
                     RatOfInt(0), RatOfInt(2), RatOfInt(1))}
JumpCoords == {<<3, 4>>}

AppOp(kind, fault, result, geo) ==
    [kind |-> kind, fault |-> fault, result |-> result, area |-> current_area_id,
     pre_matrix |-> app_transform_matrix, pre_data |-> calibration_data,
     settled |-> ~pending_load, geo |-> geo]

\* on_url_changed, for a url that names an area other than the current
\* one: the area changes and the load of its calibration is scheduled.
OnUrlChanged(new_area_id) ==
    /\ store_ops < MaxAppOps
    /\ current_area_id # new_area_id
    /\ current_area_id' = new_area_id
    /\ pending_load' = TRUE
    /\ store_ops' = store_ops + 1
    /\ app_op' = AppOp("switch", NoFault, "none", <<>>)
    /\ UNCHANGED <<app_transform_matrix, matrix_owner, calibration_data>>
    /\ UNCHANGED <<calibration_points, transform_matrix, fit_result, finished, last_saved,
                   loaded, workerVars, managerVars, obsVars, parseVars, clusterVars,
                   serverVars, recorderVars>>

\* load_calibration_for_current_map, run by the timer (online mode).
LoadCalibrationForCurrentMap(readable) ==
    /\ store_ops < MaxAppOps
    /\ pending_load
    /\ pending_load' = FALSE
    /\ store_ops' = store_ops + 1
    /\ LET matrix == load_calibration(load_all_calibrations(calibration_data, readable),
                                      "online", CurrentProvider, current_area_id)
       IN  IF matrix # None
           THEN /\ app_transform_matrix' = matrix
                /\ matrix_owner' = current_area_id
                /\ app_op' = AppOp("load", <<readable, "ok">>, "loaded", <<>>)
           ELSE /\ UNCHANGED <<app_transform_matrix, matrix_owner>>
                /\ app_op' = AppOp("load", <<readable, "ok">>, "uncalibrated", <<>>)
    /\ UNCHANGED <<current_area_id, calibration_data>>
    /\ UNCHANGED <<calibration_points, transform_matrix, fit_result, finished, last_saved,
                   loaded, workerVars, managerVars, obsVars, parseVars, clusterVars,
                   serverVars, recorderVars>>

\* on_calibration_finished with save_current_calibration (online mode).
OnCalibrationFinished(matrix, readable, write) ==
    /\ store_ops < MaxAppOps
    /\ store_ops' = store_ops + 1
    /\ app_transform_matrix' = matrix
    /\ matrix_owner' = current_area_id
    /\ LET saved == save_calibration_io(calibration_data, "online", CurrentProvider, matrix,
                                        current_area_id, store_ops + 1, readable, write)
       IN  /\ calibration_data' = saved.file
           /\ app_op' = AppOp("calibrated", saved.fault,
                              IF saved.returned THEN "saved" ELSE "failed", <<>>)
    /\ UNCHANGED <<current_area_id, pending_load>>
    /\ UNCHANGED <<calibration_points, transform_matrix, fit_result, finished, last_saved,
                   loaded, workerVars, managerVars, obsVars, parseVars, clusterVars,
                   serverVars, recorderVars>>

\* A call of CalibrationDataManager.delete_calibration for an area of the
\* provider.
DeleteCalibrationCall(area_id, readable, write) ==
    /\ store_ops < MaxAppOps
    /\ store_ops' = store_ops + 1
    /\ LET deleted_io == delete_calibration_io(calibration_data, "online", CurrentProvider,
                                               area_id, readable, write)
       IN  /\ calibration_data' = deleted_io.file
           /\ app_op' = [AppOp("delete", deleted_io.fault,
                               IF deleted_io.returned THEN "deleted" ELSE "failed", <<>>)
                         EXCEPT !.area = area_id]
    /\ UNCHANGED <<current_area_id, pending_load, app_transform_matrix, matrix_owner>>
    /\ UNCHANGED <<calibration_points, transform_matrix, fit_result, finished, last_saved,
                   loaded, workerVars, managerVars, obsVars, parseVars, clusterVars,
                   serverVars, recorderVars>>

\* ocr_auto_jump, up to the conversion of the coordinate.
OcrAutoJump(x, y) ==
    /\ store_ops < MaxAppOps
    /\ store_ops' = store_ops + 1
    /\ app_op' = IF app_transform_matrix = None
                 THEN AppOp("jump", NoFault, "refused", <<>>)
                 ELSE AppOp("jump", NoFault, "jumped", transform(x, y, app_transform_matrix))
    /\ UNCHANGED <<current_area_id, pending_load, app_transform_matrix, matrix_owner,
                   calibration_data>>
    /\ UNCHANGED <<calibration_points, transform_matrix, fit_result, finished, last_saved,
                   loaded, workerVars, managerVars, obsVars, parseVars, clusterVars,
                   serverVars, recorderVars>>

InitSpecApp ==
    /\ InitWorkers(MinOf(LostThresholds), MinOf(SpeedThresholds), MinOf(ZThresholds),
                   MinOf(ConfidenceThresholds))
    /\ InitManager
    /\ parse_input = <<>>
    /\ parse_result = Unset
    /\ cleaned_text = <<>>
    /\ InitNoSelect
    /\ InitNoFit
    /\ InitNoStore
    /\ InitNoLater

NextApp ==
    \/ \E area \in AppAreas : OnUrlChanged(area)
    \/ \E readable \in BOOLEAN : LoadCalibrationForCurrentMap(readable)
    \/ \E matrix \in AppMatrices, readable \in BOOLEAN, write \in WriteOutcomes :
          OnCalibrationFinished(matrix, readable, write)
    \/ \E area \in AppAreas \cup {None}, readable \in BOOLEAN, write \in WriteOutcomes :
          DeleteCalibrationCall(area, readable, write)
    \/ \E xy \in JumpCoords : OcrAutoJump(xy[1], xy[2])

SpecApp == InitSpecApp /\ [][NextApp]_vars

\* C21: when an operation on the calibration file meets a read or write
\* failure, the caller is given a failure result, nothing is saved, and
\* the application's active transform is the one it had before.
C21_IOFailureSurfaced ==
    (app_op.kind \in {"calibrated", "load", "delete"} /\ app_op.fault # NoFault) =>
        /\ app_op.result = "failed"
        /\ calibration_data = app_op.pre_data
        /\ app_transform_matrix = app_op.pre_matrix

\* ======================================================================
\* The clusterer on bounded detection lists
\* ======================================================================

\* Detections of width 8 laid out from x on, gaps[i] being the distance
\* from detection i to detection i + 1.
RECURSIVE EdgeOf(_, _, _)
EdgeOf(gaps, x, i) == IF i = 1 THEN x ELSE EdgeOf(gaps, x, i - 1) + 8 + gaps[i - 1]

GapLine(classes, gaps, x) ==
    [i \in 1..Len(classes) |->
        [class |-> classes[i], x1 |-> EdgeOf(gaps, x, i), x2 |-> EdgeOf(gaps, x, i) + 8,
         conf |-> 90]]

MaxDetections == 4
\* '1', ',' and a class id outside the table.
ShortClasses == {1, 10, 13}
\* Touching, a wide gap, and an overlap that gives two detections one x1.
ShortGaps == {2, 18, -8}

\* Every list of up to MaxDetections detections over these classes and gaps.
ShortLists ==
    UNION { { GapLine(cs, gs, 0) : cs \in [1..n -> ShortClasses],
                                   gs \in [1..(n - 1) -> ShortGaps] } :
            n \in 0..MaxDetections }

\* One detection of every class id of the table.
SingleLists == { GapLine(<<c>>, <<>>, 0) : c \in 0..(Len(CLASS_NAMES_STATIC) - 1) }

\* Four characters of '1', ',' and '-' written tightly and a fifth behind
\* a gap of 2, 18 or 22.
WordClasses == {1, 10, 12}
LastGaps == {2, 18, 22}
LongLists ==
    { GapLine(cs, <<2, 2, 2, g>>, 0) : cs \in [1..5 -> WordClasses], g \in LastGaps }

DetectionLists == ShortLists \cup SingleLists \cup LongLists

\* models/class_names.txt as shipped, and one that lists ':' before ','.
ClassNameFiles ==
    {CLASS_NAMES_STATIC,
     <<"0", "1", "2", "3", "4", "5", "6", "7", "8", "9", ":", ",", "-">>}

Orders == {"same", "reversed"}
Reordered(ds, order) == IF order = "reversed" THEN Reversed(ds) ELSE ds

InitCluster ==
    /\ class_names_static = CLASS_NAMES_STATIC
    /\ cluster_input \in DetectionLists
    /\ cluster_result = NotClustered

\* One call of the clusterer on the list, which it sorts in place.
Cluster ==
    /\ cluster_result.first = NotCalled
    /\ cluster_result' = [cluster_result EXCEPT
                             !.first = cluster_detections_to_rich_clusters(cluster_input)]
    /\ cluster_input' = SortByX1(cluster_input)
    /\ UNCHANGED <<class_names_static, workerVars, managerVars, obsVars, parseVars,
                   calibVars, storeVars, appVars, serverVars, recorderVars>>

\* OCRWorker.__init__ -> _load_class_names: the table is replaced by the
\* lines of the file.
ConstructWorker(names) ==
    /\ cluster_result.first # NotCalled
    /\ cluster_result.second = NotCalled
    /\ class_names_static # names
    /\ class_names_static' = names
    /\ UNCHANGED <<cluster_input, cluster_result, workerVars, managerVars, obsVars,
                   parseVars, calibVars, storeVars, appVars, serverVars, recorderVars>>

\* A second call on the same detections, presented in the given order.
ClusterAgain(order) ==
    /\ cluster_result.first # NotCalled
    /\ cluster_result.second = NotCalled
    /\ cluster_result' = [cluster_result EXCEPT
           !.second = cluster_detections_to_rich_clusters(Reordered(cluster_input, order))]
    /\ cluster_input' = SortByX1(Reordered(cluster_input, order))
    /\ UNCHANGED <<class_names_static, workerVars, managerVars, obsVars, parseVars,
                   calibVars, storeVars, appVars, serverVars, recorderVars>>

InitSpecCluster ==
    /\ InitWorkers(MinOf(LostThresholds), MinOf(SpeedThresholds), MinOf(ZThresholds),
                   MinOf(ConfidenceThresholds))
    /\ InitManager
    /\ parse_input = <<>>
    /\ parse_result = Unset
    /\ cleaned_text = <<>>
    /\ InitNoSelect
    /\ InitNoFit
    /\ InitNoStore
    /\ InitNoApp
    /\ InitCluster
    /\ InitNoServer
    /\ InitNoRecorder

NextCluster ==
    \/ Cluster
    \/ \E names \in ClassNameFiles : ConstructWorker(names)
    \/ \E order \in Orders : ClusterAgain(order)

SpecCluster == InitSpecCluster /\ [][NextCluster]_vars

\* The first call was made and the table is still the one it decoded with.
FirstCall ==
    /\ cluster_result.first # NotCalled
    /\ cluster_result.second = NotCalled
    /\ class_names_static = CLASS_NAMES_STATIC

\* C22: an empty detection list gives no cluster, and a single detection
\* of a character of the alphabet gives exactly one cluster, whose text is
\* that character.
C22_EmptyAndSingle ==
    FirstCall =>
        /\ cluster_input = <<>> => cluster_result.first = <<>>
        /\ (Len(cluster_input) = 1 /\ cluster_input[1].class \in 0..12) =>
              cluster_result.first =
                  <<[word |-> <<CLASS_NAMES_STATIC[cluster_input[1].class + 1]>>,
                     detections |-> cluster_input]>>

\* C23: clustering the same detections a second time - in whatever order,
\* and whatever ran in between - gives the cluster list of the first time.
C23_SameClustersTwice ==
    cluster_result.second # NotCalled => cluster_result.second = cluster_result.first

\* The rule of separation as stated: the gap exceeds the separation
\* threshold, or 2.5 widths, or the text so far without ',' and '-' is at
\* least four digits, the next character is a digit and the gap exceeds
\* two widths.
StatedSeparate(current_word, char, gap, gaps, total, count) ==
    LET stripped == RemoveChars(current_word, {",", "-"})
        threshold_1_exceeded == gap * count * 10 > total * 18
        threshold_2_exceeded == IF Len(gaps) >= 3 THEN gap > 2 * Percentile75Gap(gaps)
                                ELSE threshold_1_exceeded
    IN  \/ threshold_1_exceeded /\ threshold_2_exceeded
        \/ gap * count * 10 > total * 25
        \/ /\ IsDigitStr(stripped)
           /\ Len(stripped) >= 4
           /\ IsDigitChar(char)
           /\ gap * count > total * 2

\* The walk over the sorted detections under the stated rule: the words
\* closed so far and the word being written.
RECURSIVE StatedWalk(_, _, _, _, _, _, _, _)
StatedWalk(ds, i, words, word, last_x2, gaps, total, count) ==
    IF i > Len(ds) THEN (IF word = <<>> THEN words ELSE Append(words, word))
    ELSE LET char == class_id_to_char_static(ds[i].class)
         IN  IF char = NoChar
             THEN StatedWalk(ds, i + 1, words, word, last_x2, gaps, total, count)
             ELSE IF word = <<>>
             THEN StatedWalk(ds, i + 1, words, <<char>>, ds[i].x2, gaps, total, count)
             ELSE IF StatedSeparate(word, char, ds[i].x1 - last_x2, gaps, total, count)
             THEN StatedWalk(ds, i + 1, Append(words, word), <<char>>, ds[i].x2,
                             gaps, total, count)
             ELSE StatedWalk(ds, i + 1, words, Append(word, char), ds[i].x2,
                             gaps, total, count)

StatedWords(ds) ==
    IF ValidCharCount(ds) = 0 THEN <<>>
    ELSE StatedWalk(ds, 1, <<>>, <<>>, 0, Gaps(ds), TotalWidth(ds), ValidCharCount(ds))

WordsOf(clusters) == [i \in 1..Len(clusters) |-> clusters[i].word]

\* C24: the clusterer starts a new cluster exactly where the stated rule
\* says, and appends the character to the current cluster everywhere else.
C24_SeparationRule ==
    FirstCall => WordsOf(cluster_result.first) = StatedWords(cluster_input)

\* The detections whose class id decodes to a character.
Decodable(ds) == SelectSeq(ds, LAMBDA d : class_id_to_char_static(d.class) # NoChar)

\* C25: the clusters are those of the decodable detections alone - the
\* detections that decode to no character take no part in any statistic.
C25_UndecodableIgnored ==
    FirstCall =>
        cluster_result.first = cluster_detections_to_rich_clusters(Decodable(cluster_input))

\* ------------------------------------------------------------------------
\* Settings applied to the running worker
\* ------------------------------------------------------------------------

\* OCRWorker.update_advanced_parameters and update_confidence_threshold,
\* called by OCRAdvancedSettings.apply_settings on the UI thread: the
\* fields are assigned as they are, whatever the worker thread is doing.
update_advanced_parameters(w, params) ==
    /\ lost_threshold_frames' = [lost_threshold_frames EXCEPT ![w] = params.lost_threshold_frames]
    /\ max_speed_threshold' = [max_speed_threshold EXCEPT ![w] = params.max_speed_threshold]
    /\ z_axis_threshold' = [z_axis_threshold EXCEPT ![w] = params.z_axis_threshold]

\* The values the settings dialog can hold.
AdvancedSettings ==
    [lost_threshold_frames : LostThresholds, max_speed_threshold : SpeedThresholds,
     z_axis_threshold : ZThresholds]

\* OCRAdvancedSettings.apply_settings with a worker present (a call that
\* leaves the threshold as it is changes nothing the tracker reads).
ApplySettings(params, conf) ==
    /\ params.lost_threshold_frames # lost_threshold_frames[Tracked]
    /\ confidence_threshold' = [confidence_threshold EXCEPT ![Tracked] = conf]
    /\ update_advanced_parameters(Tracked, params)
    /\ UNCHANGED <<pc, is_running, should_stop, recognition_state, last_valid_coord,
                   last_valid_detections, consecutive_failures, managerVars, obsVars,
                   harnessVars>>

NextTune ==
    \/ StartRecognition
    \/ StopRecognition
    \/ WorkerStep(Tracked, Frames)
    \/ \E params \in AdvancedSettings, conf \in ConfidenceThresholds :
           ApplySettings(params, conf)

SpecTune == Init /\ [][NextTune]_vars

\* C26: a running worker that is LOCKED has fewer consecutive failures
\* than lost_threshold_frames, whenever the threshold is changed.
C26_LockedBelowThreshold ==
    (is_running[Tracked] /\ recognition_state[Tracked] = LOCKED) =>
        consecutive_failures[Tracked] < lost_threshold_frames[Tracked]

\* C27: an automatic jump made once the calibration of the selected area
\* was looked up converts the coordinate with that area's transform, and
\* is refused when the area has none.
C27_TransformOfCurrentMap ==
    (app_op.kind = "jump" /\ app_op.settled /\ app_op.result = "jumped") =>
        matrix_owner = current_area_id

\* The records of data other than the one under map_key.
OtherRecords(data, map_key) ==
    [k \in (DOMAIN data) \ {map_key} |-> data[k].matrix]

\* C28: a save or a delete leaves every record but the addressed one in
\* the file with its matrix, whether it succeeds, fails, or could not
\* read the file.
C28_OtherRecordsKept ==
    app_op.kind \in {"calibrated", "delete"} =>
        LET map_key == get_map_key("online", CurrentProvider, app_op.area)
        IN  OtherRecords(calibration_data, map_key) = OtherRecords(app_op.pre_data, map_key)

\* ======================================================================
\* The websocket server: src/src/server.py
\* ======================================================================

MaxSockets == 3
Sockets == 1..MaxSockets

\* The orders in which `for client in copy.copy(clients)` can visit a set.
IterationOrders ==
    { order \in [1..MaxSockets -> Sockets] :
          \A i, j \in 1..MaxSockets : i # j => order[i] # order[j] }

\* broadcast(message_dict), with broadcast_client_count() inlined: the
\* loop over the copy `rest` of the set, `cs` being the global clients.
\* A send to a socket of `broken` raises; the handler removes the client,
\* which raises KeyError when a nested broadcast already removed it, and
\* broadcasts the count, whose exception is not caught either.
RECURSIVE BroadcastLoop(_, _, _, _)
BroadcastLoop(cs, rest, broken, order) ==
    IF rest = <<>> THEN [clients |-> cs, raised |-> FALSE]
    ELSE LET client == Head(rest)
         IN  IF client \notin broken THEN BroadcastLoop(cs, Tail(rest), broken, order)
             ELSE IF client \notin cs THEN [clients |-> cs, raised |-> TRUE]
             ELSE LET removed == cs \ {client}
                      count == BroadcastLoop(removed,
                                   SelectSeq(order, LAMBDA c : c \in removed), broken, order)
                  IN  IF count.raised THEN count
                      ELSE BroadcastLoop(count.clients, Tail(rest), broken, order)

broadcast(cs, broken, order) ==
    BroadcastLoop(cs, SelectSeq(order, LAMBDA c : c \in cs), broken, order)

ServerOp(kind, sender, raised, left, expected) ==
    [kind |-> kind, sender |-> sender, raised |-> raised, left |-> left,
     expected |-> expected]

serverKept == <<workerVars, managerVars, obsVars, parseVars, calibVars, storeVars,
                appVars, clusterVars, recorderVars>>

\* ws_handle up to its receive loop, for a new connection. The count is
\* broadcast outside any try; the initial state is then sent to the new
\* socket, and when that send fails (the peer is already gone) the socket
\* is removed, the count is broadcast again and the handler returns.
Connect(ws, order, peer_gone) ==
    /\ ws \notin clients \cup handlers \cup failing
    /\ LET added == clients \cup {ws}
           count == broadcast(added, failing, order)
           broken == IF peer_gone THEN failing \cup {ws} ELSE failing
           recount == broadcast(count.clients \ {ws}, broken, order)
       IN  IF count.raised
           THEN /\ clients' = count.clients
                /\ UNCHANGED <<handlers, failing>>
                /\ server_op' = ServerOp("connect", ws, TRUE, count.clients, added \ failing)
           ELSE IF peer_gone
           THEN /\ clients' = recount.clients
                /\ failing' = failing
                /\ UNCHANGED handlers
                /\ server_op' = ServerOp("connect", ws, recount.raised, recount.clients,
                                         added \ broken)
           ELSE /\ clients' = count.clients
                /\ handlers' = handlers \cup {ws}
                /\ UNCHANGED failing
                /\ server_op' = ServerOp("connect", ws, FALSE, count.clients, added \ failing)
    /\ UNCHANGED serverKept

\* The `finally` of ws_handle for socket ws, from the clients it finds.
Finally(ws, cs, order) ==
    IF ws \in cs THEN broadcast(cs \ {ws}, failing, order)
    ELSE [clients |-> cs, raised |-> FALSE]

\* One message of a broadcast type received from ws and broadcast. An
\* exception of broadcast ends the receive loop: `except Exception`, then
\* `finally`.
Receive(ws, order) ==
    /\ ws \in handlers
    /\ ws \notin failing
    /\ LET sent == broadcast(clients, failing, order)
           closed == Finally(ws, sent.clients, order)
       IN  /\ server_op' = ServerOp("receive", ws, sent.raised, sent.clients,
                                    clients \ failing)
           /\ IF sent.raised
              THEN /\ clients' = closed.clients
                   /\ handlers' = handlers \ {ws}
              ELSE /\ clients' = sent.clients
                   /\ UNCHANGED handlers
    /\ UNCHANGED failing
    /\ UNCHANGED serverKept

\* ws.receive() returns None or raises: the loop ends and `finally` runs.
Disconnect(ws, order) ==
    /\ ws \in handlers
    /\ LET closed == Finally(ws, clients, order)
       IN  /\ clients' = closed.clients
           /\ server_op' = ServerOp("disconnect", ws, closed.raised, closed.clients,
                                    (clients \ {ws}) \ failing)
    /\ handlers' = handlers \ {ws}
    /\ failing' = failing \ {ws}
    /\ UNCHANGED serverKept

\* The connection of ws breaks: every later send to it raises.
ConnectionBreaks(ws) ==
    /\ ws \in clients
    /\ ws \notin failing
    /\ failing' = failing \cup {ws}
    /\ server_op' = NoServerOp
    /\ UNCHANGED <<clients, handlers>>
    /\ UNCHANGED serverKept

\* LocalServerManager.broadcast_command: broadcast(command) inside
\* try/except Exception.
BroadcastCommand(order) ==
    /\ clients # {}
    /\ LET sent == broadcast(clients, failing, order)
       IN  /\ clients' = sent.clients
           /\ server_op' = ServerOp("command", 0, sent.raised, sent.clients,
                                    clients \ failing)
    /\ UNCHANGED <<handlers, failing>>
    /\ UNCHANGED serverKept

InitSpecServer ==
    /\ InitWorkers(MinOf(LostThresholds), MinOf(SpeedThresholds), MinOf(ZThresholds),
                   MinOf(ConfidenceThresholds))
    /\ InitManager
    /\ InitNoParse

NextServer ==
    \/ \E ws \in Sockets, order \in IterationOrders, peer_gone \in BOOLEAN :
          Connect(ws, order, peer_gone)
    \/ \E ws \in Sockets, order \in IterationOrders : Receive(ws, order)
    \/ \E ws \in Sockets, order \in IterationOrders : Disconnect(ws, order)
    \/ \E ws \in Sockets : ConnectionBreaks(ws)
    \/ \E order \in IterationOrders : BroadcastCommand(order)

SpecServer == InitSpecServer /\ [][NextServer]_vars

\* C29: every broadcast returns normally and leaves exactly the clients
\* whose send did not fail, and the handler of a sender whose own
\* connection is sound goes on serving it.
C29_BroadcastSurvivesFailures ==
    server_op.kind \in {"connect", "receive", "disconnect", "command"} =>
        /\ ~server_op.raised
        /\ server_op.left = server_op.expected
        /\ server_op.kind = "receive" =>
               (server_op.sender \in handlers /\ server_op.sender \in clients)

\* ======================================================================
\* The route recorder: src/src/route_recorder.py
\* ======================================================================

\* duplicate_filter_interval = 1.0 second, in units of the clock.
duplicate_filter_interval == 2

MaxRoutePoints == 2
MaxClock == 4
RouteNames == {"", "a"}
RoutePoints == {<<1, 2, 3>>, <<4, 5, 6>>}

\* RouteData.__init__: `name or` a name made of the time.
RouteData(name) ==
    [name |-> IF name = "" THEN "default" ELSE name, points |-> <<>>, total_points |-> 0]

\* RouteData.add_point
add_point(route, point) ==
    LET points == Append(route.points, point)
    IN  [route EXCEPT !.points = points, !.total_points = Len(points)]

\* The recorder's fields as one record.
RecorderSelf ==
    [is_recording |-> is_recording, current_route |-> current_route,
     last_point_time |-> last_point_time]

Call(self, returned) == [self |-> self, returned |-> returned]

start_recording_Restart(self, route_name, raises) ==
    Call([self EXCEPT !.current_route = RouteData(route_name), !.is_recording = TRUE,
                      !.last_point_time = 0],
         IF raises THEN "False" ELSE "True")

\* RouteRecorder.start_recording; `raises`: the emit or the print after
\* the assignments raises, which the except turns into False.
start_recording(self, route_name, raises) ==
    IF self.is_recording THEN Call(self, "False")
    ELSE Call([self EXCEPT !.current_route = RouteData(route_name), !.is_recording = TRUE,
                           !.last_point_time = 0],
              IF raises THEN "False" ELSE "True")

\* RouteRecorder.stop_recording; the route is saved first, and when
\* save_route raises nothing is reset.
stop_recording(self, save_ok) ==
    IF ~self.is_recording \/ self.current_route = NoRoute THEN Call(self, "None")
    ELSE IF ~save_ok THEN Call(self, "None")
    ELSE Call([self EXCEPT !.is_recording = FALSE, !.current_route = NoRoute,
                           !.last_point_time = 0], "filepath")

\* RouteRecorder.record_point at time now.
record_point(self, point, now) ==
    IF ~self.is_recording \/ self.current_route = NoRoute THEN Call(self, "False")
    ELSE IF self.last_point_time # 0 /\ now - self.last_point_time < duplicate_filter_interval
    THEN Call(self, "False")
    ELSE Call([self EXCEPT !.current_route = add_point(self.current_route, point),
                           !.last_point_time = now], "True")

\* The recorder after a call, and the record of the call.
Called(kind, call) ==
    /\ is_recording' = call.self.is_recording
    /\ current_route' = call.self.current_route
    /\ last_point_time' = call.self.last_point_time
    /\ recorder_op' = [kind |-> kind, returned |-> call.returned,
                       pre_route |-> current_route, pre_recording |-> is_recording]
    /\ UNCHANGED <<clock, workerVars, managerVars, obsVars, parseVars, calibVars, storeVars,
                   appVars, clusterVars, serverVars>>

StartRecording(route_name, raises) ==
    Called("start", start_recording(RecorderSelf, route_name, raises))

StopRecording(save_ok) == Called("stop", stop_recording(RecorderSelf, save_ok))

RecordPoint(point) ==
    /\ Len(current_route.points) < MaxRoutePoints
    /\ Called("record", record_point(RecorderSelf, point, clock))

\* Half a filter interval passes.
TimePasses ==
    /\ clock < MaxClock
    /\ clock' = clock + 1
    /\ UNCHANGED <<is_recording, current_route, last_point_time, recorder_op, workerVars,
                   managerVars, obsVars, parseVars, calibVars, storeVars, appVars,
                   clusterVars, serverVars>>

InitSpecRecorder ==
    /\ InitWorkers(MinOf(LostThresholds), MinOf(SpeedThresholds), MinOf(ZThresholds),
                   MinOf(ConfidenceThresholds))
    /\ InitManager
    /\ InitNoParse

NextRecorder ==
    \/ \E route_name \in RouteNames, raises \in BOOLEAN : StartRecording(route_name, raises)
    \/ \E save_ok \in BOOLEAN : StopRecording(save_ok)
    \/ \E point \in RoutePoints : RecordPoint(point)
    \/ TimePasses

SpecRecorder == InitSpecRecorder /\ [][NextRecorder]_vars

\* C30: the recorder is recording exactly when it holds a route; a start
\* while recording fails and leaves the route as it was; a point offered
\* while not recording adds nothing; a stop while not recording returns
\* nothing; and total_points is the number of points of the route.
C30_RecorderConsistent ==
    /\ is_recording <=> current_route # NoRoute
    /\ current_route.total_points = Len(current_route.points)
    /\ (recorder_op.kind = "start" /\ recorder_op.pre_recording) =>
           /\ recorder_op.returned = "False"
           /\ current_route = recorder_op.pre_route
           /\ is_recording
    /\ (recorder_op.kind = "record" /\ ~recorder_op.pre_recording) =>
           /\ recorder_op.returned = "False"
           /\ current_route = NoRoute
    /\ (recorder_op.kind = "stop" /\ ~recorder_op.pre_recording) =>
           /\ recorder_op.returned = "None"
           /\ current_route = NoRoute

\* start_recording was called on a recorder holding a route with points.
C30_Witness ==
    /\ recorder_op.kind = "start"
    /\ recorder_op.pre_recording
    /\ Len(recorder_op.pre_route.points) = MaxRoutePoints
    /\ current_route.total_points = MaxRoutePoints

====
